---- MODULE Spec2Model ----
(***************************************************************************)
(* Model of the message orchestration core of truth_finder_ai-backend:     *)
(* the /agent/chat handler (app/routes/fact_check.py), the conversation    *)
(* store adapter (app/services/supabase_chat.py) and the keyword router    *)
(* with its generation gateway (app/services/multi_agent_orchestrator.py). *)
(*                                                                         *)
(* Text is a sequence of code points; a code point is a one-character      *)
(* string, or "U+XXXX" for a code point outside ASCII.                     *)
(***************************************************************************)
EXTENDS Integers, Sequences, FiniteSets, TLC

VARIABLES store, req, arrived, tools, rt, gw, hs, sn, ah

vars == <<store, req, arrived, tools, rt, gw, hs, sn, ah>>

(***************************************************************************)
(* Text primitives (Python str operations used by the code).               *)
(***************************************************************************)

\* str.lower() on one code point.
LowerChar(c) ==
    CASE c = "A" -> "a" [] c = "B" -> "b" [] c = "C" -> "c" [] c = "D" -> "d"
      [] c = "E" -> "e" [] c = "F" -> "f" [] c = "G" -> "g" [] c = "H" -> "h"
      [] c = "I" -> "i" [] c = "J" -> "j" [] c = "K" -> "k" [] c = "L" -> "l"
      [] c = "M" -> "m" [] c = "N" -> "n" [] c = "O" -> "o" [] c = "P" -> "p"
      [] c = "Q" -> "q" [] c = "R" -> "r" [] c = "S" -> "s" [] c = "T" -> "t"
      [] c = "U" -> "u" [] c = "V" -> "v" [] c = "W" -> "w" [] c = "X" -> "x"
      [] c = "Y" -> "y" [] c = "Z" -> "z" [] OTHER -> c

\* str.lower(); the concatenation makes the result an explicit sequence.
Lower(s) == [i \in 1..Len(s) |-> LowerChar(s[i])] \o <<>>

\* `k in s` for strings: k occurs as a contiguous substring of s.
Contains(s, k) ==
    \E i \in 1..(Len(s) - Len(k) + 1) : \A j \in 1..Len(k) : s[i + j - 1] = k[j]

\* any(k in s for k in ks)
AnyIn(ks, s) == \E n \in 1..Len(ks) : Contains(s, ks[n])

\* Characters str.strip() removes.
Whitespace == {" ", "\n", "\t", "\r"}

\* str.strip()
Strip(s) ==
    LET keep == {i \in 1..Len(s) : s[i] \notin Whitespace}
    IN  IF keep = {} THEN <<>>
        ELSE LET lo == CHOOSE i \in keep : \A j \in keep : i <= j
                 hi == CHOOSE i \in keep : \A j \in keep : j <= i
             IN  SubSeq(s, lo, hi)

\* re.sub(r'[<>"]', '', text)
RemoveChars(s, bad) ==
    LET Kept(c) == c \notin bad
    IN  SelectSeq(s, Kept)

\* text[:n]
Prefix(s, n) == SubSeq(s, 1, IF Len(s) < n THEN Len(s) ELSE n)

\* lst[-n:]
LastN(s, n) == SubSeq(s, IF Len(s) > n THEN Len(s) - n + 1 ELSE 1, Len(s))

\* str.title() / str.capitalize() of the role names the store holds.
TitleRole(role) ==
    IF role = "user" THEN <<"U","s","e","r">> ELSE <<"A","g","e","n","t">>

(***************************************************************************)
(* String constants of the source.                                         *)
(***************************************************************************)

GREETING_KEYWORDS ==
    << <<"h","e","l","l","o">>,
       <<"h","i">>,
       <<"h","e","y">>,
       <<"s","a","l","a","a","m">>,
       <<"a","s","s","a","l","a","m">>,
       <<"g","r","e","e","t","i","n","g","s">> >>

NEWS_EVENT_KEYWORDS ==
    << <<"n","e","w","s">>,
       <<"b","r","e","a","k","i","n","g">>,
       <<"h","a","p","p","e","n","e","d">>,
       <<"e","v","e","n","t">>,
       <<"i","n","c","i","d","e","n","t">>,
       <<"a","t","t","a","c","k">>,
       <<"w","a","r">>,
       <<"e","a","r","t","h","q","u","a","k","e">>,
       <<"e","l","e","c","t","i","o","n">>,
       <<"t","r","e","n","d","i","n","g">>,
       <<"p","r","o","t","e","s","t">>,
       <<"r","i","o","t">>,
       <<"c","o","n","f","l","i","c","t">>,
       <<"e","x","p","l","o","s","i","o","n">>,
       <<"d","i","s","a","s","t","e","r">>,
       <<"c","r","i","s","i","s">>,
       <<"s","h","o","o","t","i","n","g">>,
       <<"f","l","o","o","d">>,
       <<"s","t","o","r","m">>,
       <<"f","i","r","e">>,
       <<"a","c","c","i","d","e","n","t">>,
       <<"s","t","r","i","k","e">>,
       <<"e","m","e","r","g","e","n","c","y">> >>

PERSONAL_DATA_KEYWORDS ==
    << <<"m","y"," ","n","a","m","e">>,
       <<"i"," ","a","m">>,
       <<"i","'","m">>,
       <<"m","y"," ","a","g","e">>,
       <<"m","y"," ","b","i","r","t","h","d","a","y">>,
       <<"m","y"," ","l","o","c","a","t","i","o","n">>,
       <<"i"," ","l","i","v","e">>,
       <<"i"," ","w","o","r","k">>,
       <<"m","y"," ","j","o","b">>,
       <<"m","y"," ","h","o","b","b","y">>,
       <<"m","y"," ","f","a","v","o","r","i","t","e">>,
       <<"i"," ","l","i","k","e">>,
       <<"i"," ","l","o","v","e">>,
       <<"r","e","m","e","m","b","e","r">>,
       <<"w","h","a","t"," ","d","i","d"," ","i"," ","t","e","l","l"," ","y","o","u">>,
       <<"w","h","a","t","'","s"," ","m","y">>,
       <<"w","h","a","t"," ","i","s"," ","m","y">>,
       <<"d","o"," ","y","o","u"," ","r","e","m","e","m","b","e","r">>,
       <<"r","e","c","a","l","l">>,
       <<"m","y"," ","i","n","f","o","r","m","a","t","i","o","n">> >>

IDENTITY_KEYWORDS ==
    << <<"w","h","o"," ","a","r","e"," ","y","o","u">>,
       <<"a","b","o","u","t"," ","y","o","u">>,
       <<"y","o","u","r","s","e","l","f">> >>

SUMMARIZE_KEYWORDS ==
    << <<"s","u","m","m","a","r","i","z","e">>,
       <<"s","u","m","m","a","r","y">>,
       <<"s","h","o","r","t"," ","v","e","r","s","i","o","n">>,
       <<"t","l",";","d","r">> >>

FACTCHECK_KEYWORDS ==
    << <<"f","a","c","t"," ","c","h","e","c","k">>,
       <<"i","s"," ","i","t"," ","t","r","u","e">>,
       <<"v","e","r","i","f","y">>,
       <<"r","e","a","l"," ","o","r"," ","f","a","k","e">> >>

SENTIMENT_KEYWORDS ==
    << <<"b","i","a","s">>,
       <<"p","o","l","i","t","i","c","a","l"," ","b","i","a","s">>,
       <<"t","o","n","e">>,
       <<"s","e","n","t","i","m","e","n","t">> >>

EXTRACT_KEYWORDS ==
    << <<"k","e","y","w","o","r","d","s">>,
       <<"e","x","t","r","a","c","t">>,
       <<"e","n","t","i","t","i","e","s">> >>

STATISTIC_KEYWORDS ==
    << <<"s","t","a","t","i","s","t","i","c">>,
       <<"n","u","m","b","e","r">>,
       <<"v","e","r","i","f","y"," ","s","t","a","t">> >>

REPORT_KEYWORDS ==
    << <<"r","e","p","o","r","t">>,
       <<"g","e","n","e","r","a","t","e"," ","r","e","p","o","r","t">>,
       <<"f","i","n","a","l"," ","r","e","p","o","r","t">> >>

SOCIAL_KEYWORDS ==
    << <<"t","w","i","t","t","e","r">>,
       <<"t","w","e","e","t">>,
       <<"s","o","c","i","a","l"," ","m","e","d","i","a">> >>

WHO_ARE_YOU ==
    <<"w","h","o"," ","a","r","e"," ","y","o","u">>

IDENTITY_RESPONSE ==
    <<"I"," ","a","m"," ","T","r","u","t","h","F","i","n","d","e","r"," ","U+2014"," ","y","o","u","r"," ","f","r","i","e","n","d","l","y"," ","A","I"," ","a","s","s","i","s","t","a","n","t","!"," ","U+1F916","U+2728"," ","I"," ","s","p","e","c","i","a","l","i","z","e"," ","i","n"," ","n","e","w","s"," ","a","n","a","l","y","s","i","s",","," ","f","a","c","t","-","c","h","e","c","k","i","n","g",","," ","a","n","d"," ","m","i","s","i","n","f","o","r","m","a","t","i","o","n"," ","d","e","t","e","c","t","i","o","n",","," ","b","u","t"," ","I","'","m"," ","a","l","s","o"," ","h","e","r","e"," ","f","o","r"," ","g","e","n","e","r","a","l"," ","c","o","n","v","e","r","s","a","t","i","o","n","s"," ","a","n","d"," ","t","o"," ","h","e","l","p"," ","w","i","t","h"," ","p","e","r","s","o","n","a","l"," ","i","n","f","o","r","m","a","t","i","o","n","."," ","I"," ","c","a","n"," ","r","e","m","e","m","b","e","r"," ","d","e","t","a","i","l","s"," ","y","o","u"," ","s","h","a","r","e"," ","w","i","t","h"," ","m","e"," ","a","n","d"," ","h","e","l","p"," ","y","o","u"," ","w","i","t","h"," ","n","e","w","s",","," ","c","u","r","r","e","n","t"," ","e","v","e","n","t","s",","," ","o","r"," ","j","u","s","t"," ","c","h","a","t"," ","a","b","o","u","t"," ","a","n","y","t","h","i","n","g"," ","y","o","u","'","d"," ","l","i","k","e","."," ","T","h","i","n","k"," ","o","f"," ","m","e"," ","a","s"," ","y","o","u","r"," ","k","n","o","w","l","e","d","g","e","a","b","l","e"," ","f","r","i","e","n","d"," ","w","h","o","'","s"," ","g","r","e","a","t"," ","a","t"," ","a","n","a","l","y","z","i","n","g"," ","i","n","f","o","r","m","a","t","i","o","n"," ","a","n","d"," ","h","a","v","i","n","g"," ","e","n","g","a","g","i","n","g"," ","c","o","n","v","e","r","s","a","t","i","o","n","s","!">>

GREETING_REPLY ==
    <<"H","e","l","l","o","!"," ","U+1F44B"," ","I","'","m"," ","T","r","u","t","h","F","i","n","d","e","r",","," ","y","o","u","r"," ","f","r","i","e","n","d","l","y"," ","A","I"," ","a","s","s","i","s","t","a","n","t","!"," ","I"," ","c","a","n"," ","h","e","l","p"," ","y","o","u"," ","w","i","t","h"," ","n","e","w","s"," ","a","n","a","l","y","s","i","s",","," ","f","a","c","t","-","c","h","e","c","k","i","n","g",","," ","g","e","n","e","r","a","l"," ","q","u","e","s","t","i","o","n","s",","," ","o","r"," ","j","u","s","t"," ","c","h","a","t"," ","a","b","o","u","t"," ","a","n","y","t","h","i","n","g"," ","y","o","u","'","d"," ","l","i","k","e","."," ","W","h","a","t","'","s"," ","o","n"," ","y","o","u","r"," ","m","i","n","d"," ","t","o","d","a","y","?">>

ORCH_IDENTITY_REPLY ==
    <<"I","'","m"," ","T","r","u","t","h","F","i","n","d","e","r",","," ","y","o","u","r"," ","f","r","i","e","n","d","l","y"," ","A","I"," ","a","s","s","i","s","t","a","n","t"," ","c","r","e","a","t","e","d"," ","b","y"," ","H","a","m","z","a"," ","A","h","m","e","d","!"," ","U+1F916","U+2728"," ","I"," ","s","p","e","c","i","a","l","i","z","e"," ","i","n"," ","n","e","w","s"," ","a","n","a","l","y","s","i","s",","," ","f","a","c","t","-","c","h","e","c","k","i","n","g",","," ","a","n","d"," ","m","i","s","i","n","f","o","r","m","a","t","i","o","n"," ","d","e","t","e","c","t","i","o","n",","," ","b","u","t"," ","I","'","m"," ","a","l","s","o"," ","h","e","r","e"," ","f","o","r"," ","g","e","n","e","r","a","l"," ","c","o","n","v","e","r","s","a","t","i","o","n","s"," ","a","n","d"," ","t","o"," ","h","e","l","p"," ","w","i","t","h"," ","p","e","r","s","o","n","a","l"," ","i","n","f","o","r","m","a","t","i","o","n","."," ","I"," ","c","a","n"," ","r","e","m","e","m","b","e","r"," ","d","e","t","a","i","l","s"," ","y","o","u"," ","s","h","a","r","e"," ","w","i","t","h"," ","m","e"," ","a","n","d"," ","h","e","l","p"," ","y","o","u"," ","w","i","t","h"," ","n","e","w","s",","," ","c","u","r","r","e","n","t"," ","e","v","e","n","t","s",","," ","o","r"," ","j","u","s","t"," ","c","h","a","t"," ","a","b","o","u","t"," ","a","n","y","t","h","i","n","g"," ","y","o","u","'","d"," ","l","i","k","e","."," ","T","h","i","n","k"," ","o","f"," ","m","e"," ","a","s"," ","y","o","u","r"," ","k","n","o","w","l","e","d","g","e","a","b","l","e"," ","f","r","i","e","n","d"," ","w","h","o","'","s"," ","g","r","e","a","t"," ","a","t"," ","a","n","a","l","y","z","i","n","g"," ","i","n","f","o","r","m","a","t","i","o","n"," ","a","n","d"," ","h","a","v","i","n","g"," ","e","n","g","a","g","i","n","g"," ","c","o","n","v","e","r","s","a","t","i","o","n","s","!">>

EMPTY_TEXT_FALLBACK ==
    <<"S","o","r","r","y",","," ","I"," ","c","o","u","l","d","n","'","t"," ","p","r","o","c","e","s","s"," ","t","h","i","s"," ","r","e","q","u","e","s","t",".">>

EXCEPT_FALLBACK ==
    <<"S","o","r","r","y",","," ","t","h","i","s"," ","t","o","p","i","c"," ","s","e","e","m","s"," ","t","o","o"," ","s","e","n","s","i","t","i","v","e"," ","f","o","r"," ","t","h","e"," ","A","I"," ","t","o"," ","r","e","s","p","o","n","d"," ","t","o","."," ","P","l","e","a","s","e"," ","t","r","y"," ","r","e","p","h","r","a","s","i","n","g",".">>

FULL_MESSAGE_HEAD ==
    <<"C","o","n","v","e","r","s","a","t","i","o","n"," ","s","o"," ","f","a","r",":","\n">>

FULL_MESSAGE_USER ==
    <<"\n","U","s","e","r",":"," ">>

FULL_MESSAGE_TAIL ==
    <<"\n","A","s","s","i","s","t","a","n","t",":">>

MEMORY_HEAD ==
    <<"H","e","r","e"," ","i","s"," ","c","h","a","t"," ","h","i","s","t","o","r","y",":","\n">>

MEMORY_TAIL ==
    <<"\n","\n","N","o","w"," ","r","e","s","p","o","n","d"," ","t","o"," ","t","h","i","s",":","\n">>

NEWS_PROMPT_HEAD ==
    <<"Y","o","u"," ","a","r","e"," ","T","r","u","t","h","F","i","n","d","e","r",","," ","a","n"," ","A","I"," ","a","s","s","i","s","t","a","n","t"," ","t","h","a","t"," ","a","n","a","l","y","z","e","s"," ","n","e","w","s"," ","e","v","e","n","t","s"," ","u","s","i","n","g"," ","b","o","t","h"," ","n","e","w","s"," ","a","n","d"," ","s","o","c","i","a","l"," ","m","e","d","i","a"," ","d","a","t","a","."," ","B","e","l","o","w"," ","i","s"," ","a"," ","u","s","e","r"," ","q","u","e","s","t","i","o","n"," ","a","b","o","u","t"," ","a"," ","r","e","c","e","n","t"," ","e","v","e","n","t",","," ","a","n","d"," ","s","o","m","e"," ","r","e","c","e","n","t"," ","t","w","e","e","t","s"," ","a","b","o","u","t"," ","t","h","e"," ","t","o","p","i","c","."," ","U","s","e"," ","b","o","t","h"," ","s","o","u","r","c","e","s"," ","t","o"," ","p","r","o","v","i","d","e"," ","a"," ","c","o","m","p","r","e","h","e","n","s","i","v","e",","," ","u","p","-","t","o","-","d","a","t","e"," ","a","n","s","w","e","r",".","\n","\n","U","s","e","r"," ","q","u","e","s","t","i","o","n",":"," ">>

NEWS_PROMPT_TWEETS ==
    <<"\n","\n","R","e","c","e","n","t"," ","t","w","e","e","t","s",":","\n">>

NEWS_PROMPT_TAIL ==
    <<"\n","\n","A","n","s","w","e","r",":">>

NO_TWEETS ==
    <<"N","o"," ","r","e","l","e","v","a","n","t"," ","t","w","e","e","t","s"," ","f","o","u","n","d",".">>

TWEET_BY ==
    <<"T","w","e","e","t"," ","b","y"," ","@">>

PERSONAL_PROMPT_HEAD ==
    <<"Y","o","u"," ","a","r","e"," ","T","r","u","t","h","F","i","n","d","e","r",","," ","a"," ","f","r","i","e","n","d","l","y"," ","A","I"," ","a","s","s","i","s","t","a","n","t","."," ","T","h","e"," ","u","s","e","r"," ","i","s"," ","a","s","k","i","n","g"," ","a","b","o","u","t"," ","p","e","r","s","o","n","a","l"," ","i","n","f","o","r","m","a","t","i","o","n","."," ","U","s","e"," ","t","h","e"," ","c","o","n","v","e","r","s","a","t","i","o","n"," ","h","i","s","t","o","r","y"," ","t","o"," ","p","r","o","v","i","d","e"," ","a","c","c","u","r","a","t","e"," ","i","n","f","o","r","m","a","t","i","o","n"," ","a","b","o","u","t"," ","w","h","a","t"," ","t","h","e","y","'","v","e"," ","s","h","a","r","e","d"," ","w","i","t","h"," ","y","o","u","."," ","I","f"," ","t","h","e","y","'","r","e"," ","s","h","a","r","i","n","g"," ","n","e","w"," ","p","e","r","s","o","n","a","l"," ","i","n","f","o","r","m","a","t","i","o","n",","," ","a","c","k","n","o","w","l","e","d","g","e"," ","i","t"," ","w","a","r","m","l","y","."," ","I","f"," ","t","h","e","y","'","r","e"," ","a","s","k","i","n","g"," ","a","b","o","u","t"," ","t","h","e","i","r"," ","p","e","r","s","o","n","a","l"," ","d","a","t","a",","," ","p","r","o","v","i","d","e"," ","i","t"," ","n","a","t","u","r","a","l","l","y"," ","f","r","o","m"," ","t","h","e"," ","c","o","n","v","e","r","s","a","t","i","o","n"," ","h","i","s","t","o","r","y","."," ","B","e"," ","c","o","n","v","e","r","s","a","t","i","o","n","a","l"," ","a","n","d"," ","h","e","l","p","f","u","l","."," ","N","e","v","e","r"," ","s","a","y"," ","y","o","u"," ","d","o","n","'","t"," ","h","a","v","e"," ","a","c","c","e","s","s"," ","t","o"," ","t","h","e","i","r"," ","i","n","f","o","r","m","a","t","i","o","n"," ","i","f"," ","i","t","'","s"," ","i","n"," ","t","h","e"," ","c","o","n","v","e","r","s","a","t","i","o","n",".","\n","U","s","e","r",":"," ">>

GENERAL_PROMPT_HEAD ==
    <<"Y","o","u"," ","a","r","e"," ","T","r","u","t","h","F","i","n","d","e","r",","," ","a"," ","f","r","i","e","n","d","l","y"," ","a","n","d"," ","h","e","l","p","f","u","l"," ","A","I"," ","a","s","s","i","s","t","a","n","t","."," ","Y","o","u"," ","c","a","n"," ","d","i","s","c","u","s","s"," ","n","e","w","s",","," ","c","u","r","r","e","n","t"," ","e","v","e","n","t","s",","," ","p","e","r","s","o","n","a","l"," ","t","o","p","i","c","s",","," ","a","n","d"," ","g","e","n","e","r","a","l"," ","q","u","e","s","t","i","o","n","s","."," ","Y","o","u"," ","h","a","v","e"," ","a","c","c","e","s","s"," ","t","o"," ","t","h","e"," ","u","s","e","r","'","s"," ","c","h","a","t"," ","h","i","s","t","o","r","y"," ","a","n","d"," ","p","e","r","s","o","n","a","l"," ","i","n","f","o","r","m","a","t","i","o","n"," ","t","h","e","y","'","v","e"," ","s","h","a","r","e","d","."," ","I","f"," ","t","h","e","y"," ","a","s","k"," ","a","b","o","u","t"," ","t","h","e","i","r"," ","p","e","r","s","o","n","a","l"," ","d","a","t","a",","," ","p","r","o","v","i","d","e"," ","i","t"," ","n","a","t","u","r","a","l","l","y"," ","f","r","o","m"," ","t","h","e"," ","c","o","n","v","e","r","s","a","t","i","o","n"," ","h","i","s","t","o","r","y","."," ","B","e"," ","c","o","n","v","e","r","s","a","t","i","o","n","a","l",","," ","h","e","l","p","f","u","l",","," ","a","n","d"," ","e","n","g","a","g","i","n","g","."," ","Y","o","u"," ","c","a","n"," ","a","n","a","l","y","z","e"," ","n","e","w","s",","," ","f","a","c","t","-","c","h","e","c","k"," ","i","n","f","o","r","m","a","t","i","o","n",","," ","a","n","d"," ","h","a","v","e"," ","g","e","n","e","r","a","l"," ","c","o","n","v","e","r","s","a","t","i","o","n","s","."," ","N","e","v","e","r"," ","s","a","y"," ","y","o","u"," ","d","o","n","'","t"," ","h","a","v","e"," ","a","c","c","e","s","s"," ","t","o"," ","p","e","r","s","o","n","a","l"," ","d","a","t","a"," ","i","f"," ","i","t","'","s"," ","i","n"," ","t","h","e"," ","c","o","n","v","e","r","s","a","t","i","o","n"," ","h","i","s","t","o","r","y",".","\n","U","s","e","r",":"," ">>

PROMPT_TAIL ==
    <<"\n","A","s","s","i","s","t","a","n","t",":">>
DETAIL_EMPTY ==
    <<"M","e","s","s","a","g","e"," ","c","a","n","n","o","t"," ","b","e"," ","e","m","p","t","y",".">>

DETAIL_INTERNAL ==
    <<"I","n","t","e","r","n","a","l"," ","s","e","r","v","e","r"," ","e","r","r","o","r","."," ","P","l","e","a","s","e"," ","t","r","y"," ","a","g","a","i","n",".">>

COLON_SPACE ==
    <<":"," ">>

NEWLINE ==
    <<"\n">>

TWEET_SEP ==
    <<"\n","\n">>

(***************************************************************************)
(* Program constants.                                                      *)
(***************************************************************************)

\* sanitize_input: text[:2000]
MAX_MESSAGE_LEN == 2000

\* get_chat_history(user_id, limit=50)
HISTORY_LIMIT == 50

\* chat_agent: history[-15:]
PROMPT_TURNS == 15

\* call_gemini_api: the one client.post of a call
POSTS_PER_CALL == 1

\* max_results of the lookup news_event_agent makes (line 55).
LOOKUP_CAP == 10

STATUS_OK == 200

STATUS_BAD_REQUEST == 400

STATUS_INTERNAL == 500

(***************************************************************************)
(* Bounds of the model.                                                    *)
(***************************************************************************)

\* Requests a client sends one after another.
MaxRequests == 1

\* chat_agent coroutines alive at once.
MaxInFlight == 2

\* Nested multi_agent_orchestrator calls before the interpreter raises
\* RecursionError (the interpreter's limit, scaled down).
RecursionLimit == 2

(***************************************************************************)
(* sanitize_input                                                          *)
(***************************************************************************)

\* The pattern of line 22 without the double quote: only < and > are removed.
SanitizeKeepsQuotes(text) ==
    IF text = <<>> THEN text
    ELSE Prefix(RemoveChars(text, {"<", ">"}), MAX_MESSAGE_LEN)

sanitize_input(text) ==
    IF text = <<>> THEN text
    ELSE Prefix(RemoveChars(text, {"<", ">", "\""}), MAX_MESSAGE_LEN)

(***************************************************************************)
(* The router: the if/elif chain of multi_agent_orchestrator.              *)
(***************************************************************************)

\* The chain with the statistic branch tested before the fact-check branch.
ClassifyStatisticFirst(lower_msg) ==
    IF AnyIn(GREETING_KEYWORDS, lower_msg) THEN "greeting"
    ELSE IF AnyIn(IDENTITY_KEYWORDS, lower_msg) THEN "identity"
    ELSE IF AnyIn(NEWS_EVENT_KEYWORDS, lower_msg) THEN "news"
    ELSE IF AnyIn(SUMMARIZE_KEYWORDS, lower_msg) THEN "summarize"
    ELSE IF AnyIn(STATISTIC_KEYWORDS, lower_msg) THEN "statistic"
    ELSE IF AnyIn(FACTCHECK_KEYWORDS, lower_msg) THEN "factcheck"
    ELSE IF AnyIn(SENTIMENT_KEYWORDS, lower_msg) THEN "sentiment"
    ELSE IF AnyIn(EXTRACT_KEYWORDS, lower_msg) THEN "keywords"
    ELSE IF AnyIn(REPORT_KEYWORDS, lower_msg) THEN "report"
    ELSE IF AnyIn(SOCIAL_KEYWORDS, lower_msg) THEN "social"
    ELSE IF AnyIn(PERSONAL_DATA_KEYWORDS, lower_msg) THEN "personal"
    ELSE "general"

Classify(lower_msg) ==
    IF AnyIn(GREETING_KEYWORDS, lower_msg) THEN "greeting"
    ELSE IF AnyIn(IDENTITY_KEYWORDS, lower_msg) THEN "identity"
    ELSE IF AnyIn(NEWS_EVENT_KEYWORDS, lower_msg) THEN "news"
    ELSE IF AnyIn(SUMMARIZE_KEYWORDS, lower_msg) THEN "summarize"
    ELSE IF AnyIn(FACTCHECK_KEYWORDS, lower_msg) THEN "factcheck"
    ELSE IF AnyIn(SENTIMENT_KEYWORDS, lower_msg) THEN "sentiment"
    ELSE IF AnyIn(EXTRACT_KEYWORDS, lower_msg) THEN "keywords"
    ELSE IF AnyIn(STATISTIC_KEYWORDS, lower_msg) THEN "statistic"
    ELSE IF AnyIn(REPORT_KEYWORDS, lower_msg) THEN "report"
    ELSE IF AnyIn(SOCIAL_KEYWORDS, lower_msg) THEN "social"
    ELSE IF AnyIn(PERSONAL_DATA_KEYWORDS, lower_msg) THEN "personal"
    ELSE "general"

\* The report branch asking for the fact-checker before the summarizer.
ToolPlanVerdictFirst(intent) ==
    IF intent = "report"
    THEN <<"fact_checker", "summarize_news", "extract_keywords", "generate_report">>
    ELSE <<"summarize_news">>

\* The keyword arguments a branch hands to main_agent.handle for a tool: the
\* text the orchestrator works on, and for generate_report the three results
\* bound before it (summary, verdict, keywords; line 150).
ToolArgs(tool, user_message, results) ==
    IF tool = "generate_report" THEN <<results[1], results[2], results[3]>>
    ELSE <<user_message>>

\* The tool names each branch hands to main_agent.handle, in call order.
ToolPlan(intent) ==
    CASE intent = "summarize" -> <<"summarize_news">>
      [] intent = "factcheck" -> <<"fact_checker">>
      [] intent = "sentiment" -> <<"analyze_sentiment">>
      [] intent = "keywords"  -> <<"extract_keywords">>
      [] intent = "statistic" -> <<"verify_stat">>
      [] intent = "report"    ->
            <<"summarize_news", "fact_checker", "extract_keywords", "generate_report">>
      [] intent = "social"    -> <<"search_twitter">>
      [] OTHER -> <<>>

\* The prompt of the personal-data and general branches.
ChatPrompt(intent, user_message) ==
    (IF intent = "personal" THEN PERSONAL_PROMPT_HEAD ELSE GENERAL_PROMPT_HEAD)
        \o user_message \o PROMPT_TAIL

\* "\n\n".join(f"Tweet by @{t.author_username}: {t.text}" for t in tweets)
RECURSIVE JoinTweets(_)
JoinTweets(tweets) ==
    IF tweets = <<>> THEN <<>>
    ELSE TWEET_BY \o Head(tweets).author_username \o COLON_SPACE \o Head(tweets).text
         \o (IF Tail(tweets) = <<>> THEN <<>> ELSE TWEET_SEP \o JoinTweets(Tail(tweets)))

\* news_event_agent's prompt.
NewsPrompt(user_message, tweets) ==
    NEWS_PROMPT_HEAD \o user_message \o NEWS_PROMPT_TWEETS
        \o (IF tweets # <<>> THEN JoinTweets(tweets) ELSE NO_TWEETS)
        \o NEWS_PROMPT_TAIL

(***************************************************************************)
(* call_gemini_api.  An upstream response is                               *)
(*   [kind, shape, text]: kind "raise" (client.post raises), "timeout"     *)
(*   (client.post raises a timeout), "status" (raise_for_status raises),   *)
(*   "malformed" (res.json() raises) or "body" (a JSON body of the given   *)
(*   shape, carrying `text` when the shape has a text field).              *)
(***************************************************************************)

\* data.get("candidates", [{}])[0].get("content", {}).get("parts", [{}])[0].get("text", "")
\* on a parsed body: the text, or an exception raised on the way.
ExtractText(resp) ==
    CASE resp.shape = "not_object"       -> [raised |-> TRUE,  text |-> <<>>]
      [] resp.shape = "no_candidates"    -> [raised |-> FALSE, text |-> <<>>]
      [] resp.shape = "empty_candidates" -> [raised |-> TRUE,  text |-> <<>>]
      [] resp.shape = "no_content"       -> [raised |-> FALSE, text |-> <<>>]
      [] resp.shape = "empty_parts"      -> [raised |-> TRUE,  text |-> <<>>]
      [] resp.shape = "no_text"          -> [raised |-> FALSE, text |-> <<>>]
      [] resp.shape = "null_text"        -> [raised |-> TRUE,  text |-> <<>>]
      [] OTHER                           -> [raised |-> FALSE, text |-> resp.text]

\* The exception raised inside call_gemini_api's try block, "" when there is none.
GeminiException(resp) ==
    CASE resp.kind = "raise"     -> "ConnectError"
      [] resp.kind = "cancelled" -> "CancelledError"
      [] resp.kind = "timeout"   -> "ReadTimeout"
      [] resp.kind = "status"    -> "HTTPStatusError"
      [] resp.kind = "malformed" -> "JSONDecodeError"
      [] OTHER -> IF ~ExtractText(resp).raised THEN ""
                  ELSE IF resp.shape \in {"empty_candidates", "empty_parts"}
                       THEN "IndexError" ELSE "AttributeError"

\* An except clause that names the transport errors only.
ExceptTransportOnly(exc) ==
    exc \in {"ConnectError", "ReadTimeout", "HTTPStatusError"}

\* Line 81, a bare `except:`: every exception is caught.
BareExcept(exc) == TRUE

\* call_gemini_api: the string it returns, or the exception it lets through.
call_gemini_api(resp) ==
    LET exc == GeminiException(resp)
    IN  IF exc # ""
        THEN IF BareExcept(exc)
             THEN [raised |-> FALSE, exc |-> "", text |-> EXCEPT_FALLBACK]
             ELSE [raised |-> TRUE, exc |-> exc, text |-> <<>>]
        ELSE LET text == Strip(ExtractText(resp).text)
             IN  [raised |-> FALSE, exc |-> "",
                  text |-> IF text # <<>> THEN text ELSE EMPTY_TEXT_FALLBACK]

\* An upstream answer call_gemini_api cannot turn into generated text.
UpstreamFailure(resp) ==
    \/ resp.kind # "body"
    \/ ExtractText(resp).raised
    \/ Strip(ExtractText(resp).text) = <<>>

\* A call that posts again after a failed attempt.
GeminiPostsRetry(resp) ==
    IF resp.kind = "body" THEN POSTS_PER_CALL ELSE POSTS_PER_CALL + 1

\* The requests one call_gemini_api call sends upstream.
GeminiPosts(resp) == POSTS_PER_CALL

(***************************************************************************)
(* Conversation store adapter.  The store is the chat_history table: its   *)
(* rows in insertion order, created_at increasing.  A row holds what       *)
(* save_chat_message posts, and the created_at the table adds.             *)
(***************************************************************************)

Row(user_id, role, message, at) ==
    [user_id |-> user_id, role |-> role, content |-> message, created_at |-> at]

\* save_chat_message posting the row a second time.
SaveChatMessageTwice(st, user_id, role, message, ok) ==
    IF ok
    THEN Append(Append(st, Row(user_id, role, message, Len(st) + 1)),
                Row(user_id, role, message, Len(st) + 2))
    ELSE st

\* save_chat_message writing over the user's latest row of the same role
\* (an upsert keyed on user_id and role) when there is one.
SaveChatMessageUpsert(st, user_id, role, message, ok) ==
    LET hits == {i \in 1..Len(st) : st[i].user_id = user_id /\ st[i].role = role}
        last == CHOOSE i \in hits : \A j \in hits : j <= i
    IN  IF ~ok THEN st
        ELSE IF hits = {} THEN Append(st, Row(user_id, role, message, Len(st) + 1))
        ELSE [st EXCEPT ![last] = Row(user_id, role, message, st[last].created_at)]

\* save_chat_message posting every row with the role "user".
SaveChatMessageRoleUser(st, user_id, role, message, ok) ==
    IF ok THEN Append(st, Row(user_id, "user", message, Len(st) + 1)) ELSE st

\* save_chat_message: the table after the call; `ok` is whether the POST succeeded.
SaveChatMessage(st, user_id, role, message, ok) ==
    IF ok THEN Append(st, Row(user_id, role, message, Len(st) + 1)) ELSE st

\* save_chat_message letting the exception of a failed POST through.
SaveOutcomeRaising(ok) == [raised |-> ~ok, saved |-> ok]

\* What save_chat_message hands its caller: True after a successful POST;
\* the exception of a failed one is caught and False is returned (lines 34-36).
SaveOutcome(ok) == [raised |-> FALSE, saved |-> ok]

RECURSIVE Reverse(_)
Reverse(s) == IF s = <<>> THEN <<>> ELSE Reverse(Tail(s)) \o <<Head(s)>>

\* The query sent without its user_id filter: every row matches.
SelectRowsAnyUser(st, user_id) == st

RECURSIVE SelectRows(_, _)
SelectRows(st, user_id) ==
    IF st = <<>> THEN <<>>
    ELSE IF Head(st).user_id = user_id THEN <<Head(st)>> \o SelectRows(Tail(st), user_id)
         ELSE SelectRows(Tail(st), user_id)

\* order=created_at.desc on a set of rows: the newest row first.
RECURSIVE OrderDesc(_)
OrderDesc(rows) ==
    IF rows = {} THEN <<>>
    ELSE LET newest == CHOOSE x \in rows : \A y \in rows : y.created_at <= x.created_at
         IN  <<newest>> \o OrderDesc(rows \ {newest})

\* The table's answer to user_id=eq.<id>&order=created_at.desc&limit=<limit>,
\* whatever the physical order of its rows.
StoreQuery(st, user_id, limit) ==
    LET mine == SelectRows(st, user_id)
    IN  Prefix(OrderDesc({mine[i] : i \in 1..Len(mine)}), limit)

\* get_chat_history returning the rows in the order the store sent them.
GetChatHistoryAsReturned(st, user_id, limit, ok) ==
    IF ok THEN StoreQuery(st, user_id, limit) ELSE <<>>

\* get_chat_history: data[::-1], or [] when the GET fails.
GetChatHistory(st, user_id, limit, ok) ==
    IF ok THEN Reverse(StoreQuery(st, user_id, limit)) ELSE <<>>

\* An answer of the store to the GET of get_chat_history: kind "raise"
\* (client.get raises), "status" (raise_for_status raises), "malformed"
\* (res.json() raises) or "body", a parsed JSON value of the given shape:
\* "array" (the rows asked for), "object" or "null".
Answer(kind, shape) == [kind |-> kind, shape |-> shape]

StoreAnswers ==
    { Answer("raise", "none"), Answer("status", "none"), Answer("malformed", "none"),
      Answer("body", "array"), Answer("body", "object"), Answer("body", "null") }

\* The exception raised inside get_chat_history's try block, "" when there is
\* none: len(data) raises on null (line 55), data[::-1] on an object (line 56).
FetchException(ans) ==
    CASE ans.kind = "raise"     -> "ConnectError"
      [] ans.kind = "status"    -> "HTTPStatusError"
      [] ans.kind = "malformed" -> "JSONDecodeError"
      [] OTHER -> IF ans.shape = "array" THEN "" ELSE "TypeError"

\* An except clause that names the transport errors only.
FetchExceptTransportOnly(exc) == exc \in {"ConnectError", "HTTPStatusError"}

\* Line 57, `except Exception`: every exception of the try block is caught.
FetchExcept(exc) == TRUE

\* get_chat_history against an answer of the store: the list it returns, or
\* the exception it lets through.
get_chat_history(st, user_id, limit, ans) ==
    LET exc == FetchException(ans)
    IN  IF exc # ""
        THEN IF FetchExcept(exc)
             THEN [raised |-> FALSE, exc |-> "", rows |-> <<>>]
             ELSE [raised |-> TRUE, exc |-> exc, rows |-> <<>>]
        ELSE [raised |-> FALSE, exc |-> "",
              rows |-> GetChatHistory(st, user_id, limit, TRUE)]

(***************************************************************************)
(* Context folding.                                                        *)
(***************************************************************************)

\* msg['message'] raises KeyError on a row without that key.
HasKey(row, key) == key \in DOMAIN row

RECURSIVE FoldTurns(_, _)
FoldTurns(rows, sep_each) ==
    IF rows = <<>> THEN <<>>
    ELSE TitleRole(Head(rows).role) \o COLON_SPACE \o Head(rows).message
         \o (IF sep_each \/ Tail(rows) # <<>> THEN NEWLINE ELSE <<>>)
         \o FoldTurns(Tail(rows), sep_each)

RECURSIVE FoldContent(_)
FoldContent(rows) ==
    IF rows = <<>> THEN <<>>
    ELSE TitleRole(Head(rows).role) \o COLON_SPACE \o Head(rows).content \o NEWLINE
         \o FoldContent(Tail(rows))

\* The loop reading msg['content'], the key the rows carry.
HistoryContextFromContent(history) ==
    [raised |-> FALSE, text |-> FoldContent(LastN(history, PROMPT_TURNS)),
     turns |-> Len(LastN(history, PROMPT_TURNS))]

\* chat_agent: the loop over history[-15:] building history_context.
HistoryContext(history) ==
    LET rows == LastN(history, PROMPT_TURNS)
    IN  IF \E i \in 1..Len(rows) : ~HasKey(rows[i], "message")
        THEN [raised |-> TRUE, text |-> <<>>, turns |-> 0]
        ELSE [raised |-> FALSE, text |-> FoldTurns(rows, TRUE), turns |-> Len(rows)]

\* chat_agent: full_message
FullMessage(history_context, message) ==
    FULL_MESSAGE_HEAD \o history_context \o FULL_MESSAGE_USER \o message \o FULL_MESSAGE_TAIL

\* The memory step reading m['content'], the key the rows carry.
MemoryFoldFromContent(memory, user_message) ==
    IF memory = <<>> THEN [raised |-> FALSE, text |-> user_message, turns |-> 0]
    ELSE [raised |-> FALSE,
          text |-> MEMORY_HEAD \o FoldContent(memory) \o MEMORY_TAIL \o user_message,
          turns |-> Len(memory)]

\* multi_agent_orchestrator: the user_message after the memory step, and the
\* number of stored turns it folded in (`turns`): every row of memory, lines
\* 121-123 have no truncation of their own.
MemoryFold(memory, user_message) ==
    IF memory = <<>> THEN [raised |-> FALSE, text |-> user_message, turns |-> 0]
    ELSE IF \E i \in 1..Len(memory) : ~HasKey(memory[i], "message")
         THEN [raised |-> TRUE, text |-> <<>>, turns |-> 0]
         ELSE [raised |-> FALSE,
               text |-> MEMORY_HEAD \o FoldTurns(memory, FALSE) \o MEMORY_TAIL \o user_message,
               turns |-> Len(memory)]

\* chat_agent's `except Exception`: what the caller gets for an exception raised
\* inside the try block.  fastapi's HTTPException and the others are all
\* subclasses of Exception.
ExceptionClasses ==
    {"HTTPException", "KeyError", "RecursionError", "ConnectError", "ReadTimeout",
     "HTTPStatusError", "JSONDecodeError", "IndexError", "AttributeError"}

ChatAgentExcept(exc, status, detail) ==
    IF exc \in ExceptionClasses
    THEN [status |-> STATUS_INTERNAL, detail |-> DETAIL_INTERNAL]
    ELSE [status |-> status, detail |-> detail]

(***************************************************************************)
(* app.services.tools (TRUTHFINDER_TOOLS, search_twitter): each tool is a  *)
(* single-prompt wrapper around the generation gateway; the lookup client  *)
(* returns a sequence of posts, empty on any failure.                      *)
(***************************************************************************)

TOOL_NAMES ==
    {"summarize_news", "fact_checker", "analyze_sentiment", "extract_keywords",
     "verify_stat", "generate_report", "search_twitter"}

\* The keys TruthFinderAgent.__init__ may end up with: every tool under its
\* own name, or none of the names the router asks for.
ToolTables == {TOOL_NAMES, {}}

\* The text a tool folds into its one prompt: its keyword arguments.
ToolPrompt(tool, user_message, results) ==
    IF tool = "generate_report"
    THEN results[1] \o NEWLINE \o results[2] \o NEWLINE \o results[3]
    ELSE user_message

(***************************************************************************)
(* Inputs of the environment.                                              *)
(***************************************************************************)

Users == {"u1", "u2"}

\* An article and the request to summarize it.
ARTICLE == <<"R","a","i","n",".">>

SUMMARIZE_REQUEST == <<"s","u","m","m","a","r","i","z","e",":"," ">> \o ARTICLE

RawMessages ==
    { <<>>,
      SUMMARIZE_REQUEST,
      <<" ">>,
      <<"<",">">>,
      <<"H","e","l","l","o","!">>,
      <<"h","i",","," ","w","h","o"," ","a","r","e"," ","y","o","u">>,
      <<"w","a","r">>,
      <<"r","e","p","o","r","t">>,
      <<"o","k">> }

Resp(kind, shape, text) == [kind |-> kind, shape |-> shape, text |-> text]

\* Upstream answers a request may meet.
GeminiResponses ==
    { Resp("raise", "none", <<>>),
      Resp("timeout", "none", <<>>),
      Resp("body", "text", <<" ">>),
      Resp("body", "text", <<"F","i","n","e",".">>) }

\* What search_twitter may return.
LookupResults ==
    { <<>>,
      <<[author_username |-> <<"b","o","b">>, text |-> <<"Q","u","a","k","e","!">>]>> }

\* Coroutines of chat_agent that can be alive at once.
Slots == 1..MaxInFlight

(***************************************************************************)
(* State.                                                                  *)
(*   store  the chat_history table                                         *)
(*   req    per request: the position of its chat_agent coroutine (pc),    *)
(*          its locals, its outcome, counts of the calls it made, and the  *)
(*          length of the table when it arrived (base_len)                 *)
(*   arrived  the requests received so far                                 *)
(*   tools  main_agent.tools (its keys)                                    *)
(*   rt, gw, hs, sn  inputs and results of the router, the gateway, the    *)
(*          history read and sanitize_input when they are exercised on     *)
(*          their own                                                      *)
(*   ah     the NewsAnalysisAgent: its analysis_history and the last       *)
(*          answer of get_analysis_history                                 *)
(* A request also keeps the log of the steps it has taken (steps), in the  *)
(* order it took them, the text it returned (response), and the arguments  *)
(* of its lookup (topic, cap), and the number of stored turns folded into  *)
(* the text it sends to the generation service (folded), and the tools it  *)
(* awaited, each with its arguments and its result (tool_calls), and the   *)
(* created_at of the rows it wrote (user_row, agent_row; 0 for none).      *)
(***************************************************************************)

Idle ==
    [pc |-> "idle", user_id |-> "", message |-> <<>>, user_message |-> <<>>,
     lower_msg |-> <<>>, intent |-> "", depth |-> 0, idx |-> 0, results |-> <<>>,
     tweets |-> <<>>, prompts |-> <<>>, reply |-> <<>>, status |-> 0, detail |-> <<>>,
     exc |-> "", history |-> <<>>, store_calls |-> 0, lookup_calls |-> 0,
     gen_calls |-> 0, posts |-> 0, failed |-> 0, base_len |-> 0, agent_saved |-> FALSE,
     user_saved |-> FALSE, fetch_failed |-> 0, steps |-> <<>>, response |-> <<>>,
     topic |-> <<>>, cap |-> 0, folded |-> 0, tool_calls |-> <<>>,
     user_row |-> 0, agent_row |-> 0]

RtIdle == [text |-> <<>>, intent |-> "", ran |-> FALSE]

GwIdle ==
    [resp |-> Resp("raise", "none", <<>>),
     out |-> [raised |-> FALSE, exc |-> "", text |-> <<>>], posts |-> 0, ran |-> FALSE]

HsIdle ==
    [user_id |-> "", limit |-> 0, ans |-> [kind |-> "raise", shape |-> "none"],
     text |-> <<>>, out |-> [raised |-> FALSE, exc |-> "", rows |-> <<>>],
     fold |-> [raised |-> FALSE, text |-> <<>>, turns |-> 0], ran |-> FALSE]

SnIdle ==
    [text |-> <<>>, out |-> <<>>, again |-> <<>>, accepted |-> FALSE, ran |-> FALSE]

AhIdle ==
    [analysis_history |-> <<>>, limit |-> 0, out |-> <<>>, asked |-> FALSE, calls |-> 0]

\* The table when the service starts: empty, or holding the two turns an
\* earlier greeting of user u1 left in it.
InitialTables ==
    { <<>>,
      << Row("u1", "user", <<"H","e","l","l","o","!">>, 1),
         Row("u1", "agent", GREETING_REPLY, 2) >> }

Init ==
    /\ store \in InitialTables
    /\ req = [r \in Slots |-> Idle]
    /\ arrived = 0
    /\ tools \in ToolTables
    /\ rt = RtIdle
    /\ gw = GwIdle
    /\ hs = HsIdle
    /\ sn = SnIdle
    /\ ah = AhIdle

(***************************************************************************)
(* chat_agent, one action per stretch of code between two awaits.          *)
(***************************************************************************)

\* An exception raised inside chat_agent's try block ends the request with
\* what the except clause makes of it.
Raise(rec, exc, status, detail) ==
    [rec EXCEPT !.pc = "done", !.exc = exc,
                !.status = ChatAgentExcept(exc, status, detail).status,
                !.detail = ChatAgentExcept(exc, status, detail).detail]

\* Lines 37-43: read the body, sanitize, validate.
Receive(r, u, raw) ==
    /\ req[r].pc = "idle"
    /\ \A q \in Slots : q < r => req[q].pc # "idle"
    /\ arrived' = arrived + 1
    /\ LET message == sanitize_input(raw)
           rec == [req[r] EXCEPT !.user_id = u, !.message = message,
                                 !.base_len = Len(store)]
       IN  req' = [req EXCEPT ![r] =
                     IF message = <<>>
                     THEN Raise(rec, "HTTPException", STATUS_BAD_REQUEST, DETAIL_EMPTY)
                     ELSE [rec EXCEPT !.pc = "save_user"]]
    /\ UNCHANGED <<store, tools, rt, gw, hs, sn, ah>>

\* The user turn's write started as a background task and not awaited:
\* chat_agent goes on before the write has returned.
SaveUserNotAwaited(r, ok) ==
    /\ req[r].pc = "save_user"
    /\ req' = [req EXCEPT ![r] = [@ EXCEPT !.pc = "fetch_history"]]
    /\ UNCHANGED <<store, arrived, tools, rt, gw, hs, sn, ah>>

\* The user turn written together with a placeholder for the agent turn that
\* is to follow it.
SaveUserWithPlaceholder(r, ok) ==
    /\ req[r].pc = "save_user"
    /\ store' = SaveChatMessage(
                     SaveChatMessage(store, req[r].user_id, "user", req[r].message, ok),
                     req[r].user_id, "agent", <<>>, ok)
    /\ req' = [req EXCEPT ![r] =
                 [@ EXCEPT !.store_calls = @ + 1, !.user_saved = ok,
                           !.steps = Append(@, "append_user"), !.pc = "fetch_history"]]
    /\ UNCHANGED <<arrived, tools, rt, gw, hs, sn, ah>>

\* Line 46: await save_chat_message(role="user").
SaveUser(r, ok) ==
    /\ req[r].pc = "save_user"
    /\ store' = SaveChatMessage(store, req[r].user_id, "user", req[r].message, ok)
    /\ LET rec == [req[r] EXCEPT !.store_calls = @ + 1,
                                 !.user_saved = SaveOutcome(ok).saved,
                                 !.user_row = IF ok THEN Len(store) + 1 ELSE 0,
                                 !.steps = Append(@, "append_user")]
       IN  req' = [req EXCEPT ![r] =
                     IF SaveOutcome(ok).raised THEN Raise(rec, "ConnectError", 0, <<>>)
                     ELSE [rec EXCEPT !.pc = "fetch_history"]]
    /\ UNCHANGED <<arrived, tools, rt, gw, hs, sn, ah>>

\* multi_agent_orchestrator from its classification on (lines 125-173), up to
\* the first await of the branch taken.
Dispatch(rec) ==
    LET intent == Classify(rec.lower_msg)
        r1 == [rec EXCEPT !.intent = intent]
        direct == [r1 EXCEPT !.steps = @ \o <<"classify", "dispatch", "reply">>,
                             !.pc = "save_agent"]
        branch == [r1 EXCEPT !.steps = @ \o <<"classify", "dispatch">>]
    IN  CASE intent = "greeting" -> [direct EXCEPT !.reply = GREETING_REPLY]
          [] intent = "identity" -> [direct EXCEPT !.reply = ORCH_IDENTITY_REPLY]
          [] intent = "news" -> [branch EXCEPT !.pc = "lookup"]
          [] intent \in {"personal", "general"} -> [branch EXCEPT !.pc = "gen"]
          [] OTHER -> [branch EXCEPT !.pc = "handle", !.idx = 1, !.results = <<>>]

\* Lines 49-69: await get_chat_history, fold the last turns into full_message,
\* answer "who are you" directly, otherwise enter multi_agent_orchestrator
\* (line 117) up to its await of get_chat_history.
FetchHistory(r, ok) ==
    /\ req[r].pc = "fetch_history"
    /\ LET history == GetChatHistory(store, req[r].user_id, HISTORY_LIMIT, ok)
           ctx == HistoryContext(history)
           rec == [req[r] EXCEPT !.store_calls = @ + 1,
                                 !.fetch_failed = @ + (IF ok THEN 0 ELSE 1),
                                 !.folded = @ + ctx.turns,
                                 !.steps = Append(@, "fetch_history")]
           full == FullMessage(ctx.text, rec.message)
       IN  req' = [req EXCEPT ![r] =
                     IF ctx.raised THEN Raise(rec, "KeyError", 0, <<>>)
                     ELSE IF Contains(Lower(rec.message), WHO_ARE_YOU)
                     THEN [rec EXCEPT !.reply = IDENTITY_RESPONSE,
                                      !.steps = Append(@, "reply"),
                                      !.pc = "save_agent"]
                     ELSE [rec EXCEPT !.user_message = full, !.lower_msg = Lower(full),
                                      !.pc = "orch_memory"]]
    /\ UNCHANGED <<store, arrived, tools, rt, gw, hs, sn, ah>>

\* Lines 119-125: await get_chat_history(user_id), fold memory, classify.
OrchMemory(r, ok) ==
    /\ req[r].pc = "orch_memory"
    /\ LET memory == GetChatHistory(store, req[r].user_id, HISTORY_LIMIT, ok)
           fold == MemoryFold(memory, req[r].user_message)
           rec == [req[r] EXCEPT !.store_calls = @ + 1,
                                 !.fetch_failed = @ + (IF ok THEN 0 ELSE 1),
                                 !.folded = @ + fold.turns,
                                 !.steps = Append(@, "fetch_history")]
       IN  req' = [req EXCEPT ![r] =
                     IF fold.raised THEN Raise(rec, "KeyError", 0, <<>>)
                     ELSE Dispatch([rec EXCEPT !.user_message = fold.text])]
    /\ UNCHANGED <<store, arrived, tools, rt, gw, hs, sn, ah>>

\* news_event_agent line 55: await search_twitter(keywords, max_results=10),
\* keywords being the text news_event_agent was called with (line 54).
Lookup(r, found) ==
    /\ req[r].pc = "lookup"
    /\ req' = [req EXCEPT ![r] =
                 [@ EXCEPT !.tweets = found, !.lookup_calls = @ + 1,
                           !.topic = req[r].user_message, !.cap = LOOKUP_CAP,
                           !.steps = Append(@, "lookup"), !.pc = "gen"]]
    /\ UNCHANGED <<store, arrived, tools, rt, gw, hs, sn, ah>>

\* One call of call_gemini_api by request record rec.
Generate(rec, prompt, resp) ==
    [rec EXCEPT !.prompts = Append(@, prompt),
                !.steps = Append(@, "generate"),
                !.gen_calls = @ + 1,
                !.posts = @ + GeminiPosts(resp),
                !.failed = @ + (IF UpstreamFailure(resp) THEN 1 ELSE 0)]

\* Lines 67, 163, 173: the generation call of the news, personal-data and
\* general branches; its result is the orchestrator's reply.
Gen(r, resp) ==
    /\ req[r].pc = "gen"
    /\ LET rec == req[r]
           prompt == IF rec.intent = "news" THEN NewsPrompt(rec.user_message, rec.tweets)
                     ELSE ChatPrompt(rec.intent, rec.user_message)
           out == call_gemini_api(resp)
           r1 == Generate(rec, prompt, resp)
       IN  req' = [req EXCEPT ![r] =
                     IF out.raised THEN Raise(r1, out.exc, 0, <<>>)
                     ELSE [r1 EXCEPT !.reply = out.text,
                                     !.steps = Append(@, "reply"),
                                     !.pc = "save_agent"]]
    /\ UNCHANGED <<store, arrived, tools, rt, gw, hs, sn, ah>>

\* TruthFinderAgent.handle (lines 89-93): a registered tool is awaited; for any
\* other name handle calls multi_agent_orchestrator(user_input) without a
\* user_id, which classifies again.  The nested call is given the text its
\* caller classified, so it never returns a value to the frames below it; the
\* model keeps only the depth of the nesting.
Handle(r) ==
    /\ req[r].pc = "handle"
    /\ LET rec == req[r]
           tool == ToolPlan(rec.intent)[rec.idx]
       IN  req' = [req EXCEPT ![r] =
                     IF tool \in tools THEN [rec EXCEPT !.pc = "tool"]
                     ELSE IF rec.depth >= RecursionLimit
                     THEN Raise(rec, "RecursionError", 0, <<>>)
                     ELSE Dispatch([rec EXCEPT !.depth = @ + 1,
                                               !.lower_msg = Lower(rec.user_message)])]
    /\ UNCHANGED <<store, arrived, tools, rt, gw, hs, sn, ah>>

\* Line 92: await tool(**kwargs); the branch returns the result of its last tool.
Tool(r, resp) ==
    /\ req[r].pc = "tool"
    /\ LET rec == req[r]
           plan == ToolPlan(rec.intent)
           prompt == ToolPrompt(plan[rec.idx], rec.user_message, rec.results)
           out == call_gemini_api(resp)
           r1 == [Generate(rec, prompt, resp) EXCEPT
                      !.results = Append(@, out.text),
                      !.tool_calls = Append(@, [tool |-> plan[rec.idx],
                                                args |-> ToolArgs(plan[rec.idx],
                                                                  rec.user_message,
                                                                  rec.results),
                                                out |-> out.text])]
       IN  req' = [req EXCEPT ![r] =
                     IF out.raised THEN Raise(r1, out.exc, 0, <<>>)
                     ELSE IF rec.idx = Len(plan)
                     THEN [r1 EXCEPT !.reply = out.text,
                                     !.steps = Append(@, "reply"),
                                     !.pc = "save_agent"]
                     ELSE [r1 EXCEPT !.idx = @ + 1, !.pc = "handle"]]
    /\ UNCHANGED <<store, arrived, tools, rt, gw, hs, sn, ah>>

\* Line 72: await save_chat_message(role="agent").
SaveAgent(r, ok) ==
    /\ req[r].pc = "save_agent"
    /\ store' = SaveChatMessage(store, req[r].user_id, "agent", req[r].reply, ok)
    /\ LET rec == [req[r] EXCEPT !.store_calls = @ + 1,
                                 !.agent_saved = SaveOutcome(ok).saved,
                                 !.agent_row = IF ok THEN Len(store) + 1 ELSE 0,
                                 !.steps = Append(@, "append_agent")]
       IN  req' = [req EXCEPT ![r] =
                     IF SaveOutcome(ok).raised THEN Raise(rec, "ConnectError", 0, <<>>)
                     ELSE [rec EXCEPT !.pc = "fetch_updated"]]
    /\ UNCHANGED <<arrived, tools, rt, gw, hs, sn, ah>>

\* Lines 75-86: await get_chat_history, return the response.
FetchUpdated(r, ok) ==
    /\ req[r].pc = "fetch_updated"
    /\ req' = [req EXCEPT ![r] =
                 [@ EXCEPT !.history =
                               GetChatHistory(store, req[r].user_id, HISTORY_LIMIT, ok),
                           !.store_calls = @ + 1,
                           !.fetch_failed = @ + (IF ok THEN 0 ELSE 1),
                           !.steps = @ \o <<"fetch_history", "return">>,
                           !.response = req[r].reply,
                           !.status = STATUS_OK,
                           !.pc = "done"]]
    /\ UNCHANGED <<store, arrived, tools, rt, gw, hs, sn, ah>>

\* The response (or the error) has been delivered and the coroutine is gone.
Return(r) ==
    /\ req[r].pc = "done"
    /\ req' = [req EXCEPT ![r] = Idle]
    /\ UNCHANGED <<store, arrived, tools, rt, gw, hs, sn, ah>>

\* A client that awaits each response before it sends its next request.
Arrive(r, u, raw) ==
    /\ arrived < MaxRequests
    /\ \A q \in Slots : req[q].pc = "idle"
    /\ Receive(r, u, raw)

Next ==
    \E r \in Slots :
        \/ \E u \in Users, raw \in RawMessages : Arrive(r, u, raw)
        \/ Return(r)
        \/ \E ok \in BOOLEAN : SaveUser(r, ok)
        \/ \E ok \in BOOLEAN : FetchHistory(r, ok)
        \/ \E ok \in BOOLEAN : OrchMemory(r, ok)
        \/ \E found \in LookupResults : Lookup(r, found)
        \/ Handle(r)
        \/ \E resp \in GeminiResponses : Tool(r, resp)
        \/ \E resp \in GeminiResponses : Gen(r, resp)
        \/ \E ok \in BOOLEAN : SaveAgent(r, ok)
        \/ \E ok \in BOOLEAN : FetchUpdated(r, ok)

Spec == Init /\ [][Next]_vars

(***************************************************************************)
(* Cancellation.  The task that runs chat_agent is cancelled (the client   *)
(* went away, or a deadline around the handler expired): CancelledError is *)
(* raised at the await the coroutine is suspended in.  It is a             *)
(* BaseException, so the `except Exception` clauses of save_chat_message,  *)
(* get_chat_history and chat_agent let it through and the request ends     *)
(* without a response; the bare `except:` of call_gemini_api (line 81)     *)
(* catches it, and the request goes on with the fallback text.  A POST     *)
(* that was in flight when the task was cancelled may or may not have      *)
(* reached the table (`landed`).                                           *)
(***************************************************************************)

Cancelled(rec) == Raise(rec, "CancelledError", 0, <<>>)

Cancel(r, landed) ==
    CASE req[r].pc = "save_user" ->
           /\ store' = SaveChatMessage(store, req[r].user_id, "user", req[r].message, landed)
           /\ req' = [req EXCEPT ![r] =
                        Cancelled([@ EXCEPT !.store_calls = @ + 1, !.user_saved = landed,
                                            !.user_row = IF landed THEN Len(store) + 1
                                                         ELSE 0])]
           /\ UNCHANGED <<arrived, tools, rt, gw, hs, sn, ah>>
      [] req[r].pc = "save_agent" ->
           /\ store' = SaveChatMessage(store, req[r].user_id, "agent", req[r].reply, landed)
           /\ req' = [req EXCEPT ![r] =
                        Cancelled([@ EXCEPT !.store_calls = @ + 1, !.agent_saved = landed,
                                            !.agent_row = IF landed THEN Len(store) + 1
                                                          ELSE 0])]
           /\ UNCHANGED <<arrived, tools, rt, gw, hs, sn, ah>>
      [] req[r].pc = "gen" -> ~landed /\ Gen(r, Resp("cancelled", "none", <<>>))
      [] req[r].pc = "tool" -> ~landed /\ Tool(r, Resp("cancelled", "none", <<>>))
      [] req[r].pc \in {"fetch_history", "orch_memory", "lookup", "fetch_updated"} ->
           /\ ~landed
           /\ req' = [req EXCEPT ![r] = Cancelled([@ EXCEPT !.store_calls = @ + 1])]
           /\ UNCHANGED <<store, arrived, tools, rt, gw, hs, sn, ah>>
      [] OTHER -> FALSE

\* Messages of requests that may be cancelled: one per kind of branch.
CancelMessages ==
    { <<"w","a","r">>, <<"r","e","p","o","r","t">>, <<"o","k">> }

NextCancel ==
    \E r \in Slots :
        \/ \E u \in Users, raw \in CancelMessages : Arrive(r, u, raw)
        \/ Return(r)
        \/ \E ok \in BOOLEAN : SaveUser(r, ok)
        \/ \E ok \in BOOLEAN : FetchHistory(r, ok)
        \/ \E ok \in BOOLEAN : OrchMemory(r, ok)
        \/ \E found \in LookupResults : Lookup(r, found)
        \/ Handle(r)
        \/ \E resp \in GeminiResponses : Tool(r, resp)
        \/ \E resp \in GeminiResponses : Gen(r, resp)
        \/ \E ok \in BOOLEAN : SaveAgent(r, ok)
        \/ \E ok \in BOOLEAN : FetchUpdated(r, ok)
        \/ \E landed \in BOOLEAN : Cancel(r, landed)

SpecCancel == Init /\ [][NextCancel]_vars

(***************************************************************************)
(* A user with a long history: the table holds more turns of user u1 than  *)
(* chat_agent's loop folds (history[-15:]), fewer than one read returns.   *)
(***************************************************************************)

LongHistoryTurns == 16

LongTable ==
    [i \in 1..LongHistoryTurns |->
        IF i % 2 = 1 THEN Row("u1", "user", <<"o","k">>, i)
        ELSE Row("u1", "agent", <<"F","i","n","e",".">>, i)]

LongHistoryMessages == { <<"o","k">>, <<"w","a","r">> }

LongHistoryInit ==
    /\ store = LongTable
    /\ req = [r \in Slots |-> Idle]
    /\ arrived = 0
    /\ tools = TOOL_NAMES
    /\ rt = RtIdle
    /\ gw = GwIdle
    /\ hs = HsIdle
    /\ sn = SnIdle
    /\ ah = AhIdle

NextLongHistory ==
    \E r \in Slots :
        \/ \E u \in Users, raw \in LongHistoryMessages : Arrive(r, u, raw)
        \/ Return(r)
        \/ \E ok \in BOOLEAN : SaveUser(r, ok)
        \/ \E ok \in BOOLEAN : FetchHistory(r, ok)
        \/ \E ok \in BOOLEAN : OrchMemory(r, ok)
        \/ \E found \in LookupResults : Lookup(r, found)
        \/ \E resp \in GeminiResponses : Gen(r, resp)
        \/ \E ok \in BOOLEAN : SaveAgent(r, ok)
        \/ \E ok \in BOOLEAN : FetchUpdated(r, ok)

SpecLongHistory == LongHistoryInit /\ [][NextLongHistory]_vars

\* Requests that overlap in time: any request may arrive while others are in
\* flight.
OverlapMessages ==
    { <<"H","e","l","l","o","!">>, <<"o","k">> }

\* Clients that send without waiting for each other.
ArriveAnyTime(r, u, raw) ==
    /\ arrived < MaxInFlight
    /\ Receive(r, u, raw)

NextOverlap ==
    \E r \in Slots :
        \/ \E u \in Users, raw \in OverlapMessages : ArriveAnyTime(r, u, raw)
        \/ Return(r)
        \/ \E ok \in BOOLEAN : SaveUser(r, ok)
        \/ \E ok \in BOOLEAN : FetchHistory(r, ok)
        \/ \E ok \in BOOLEAN : OrchMemory(r, ok)
        \/ \E resp \in GeminiResponses : Gen(r, resp)
        \/ \E ok \in BOOLEAN : SaveAgent(r, ok)
        \/ \E ok \in BOOLEAN : FetchUpdated(r, ok)

\* The messages of OverlapMessages reach no tool: the table of tools is the
\* full one.
OverlapInit == Init /\ tools = TOOL_NAMES

SpecOverlap == OverlapInit /\ [][NextOverlap]_vars

(***************************************************************************)
(* The router on its own: multi_agent_orchestrator(text) without a         *)
(* user_id, on texts that combine two keywords (or none) in either letter  *)
(* case.                                                                   *)
(***************************************************************************)

Range(s) == {s[i] : i \in DOMAIN s}

AllKeywords ==
    UNION { Range(GREETING_KEYWORDS), Range(IDENTITY_KEYWORDS), Range(NEWS_EVENT_KEYWORDS),
            Range(SUMMARIZE_KEYWORDS), Range(FACTCHECK_KEYWORDS), Range(SENTIMENT_KEYWORDS),
            Range(EXTRACT_KEYWORDS), Range(STATISTIC_KEYWORDS), Range(REPORT_KEYWORDS),
            Range(SOCIAL_KEYWORDS), Range(PERSONAL_DATA_KEYWORDS) }

UpperChar(c) ==
    CASE c = "a" -> "A" [] c = "b" -> "B" [] c = "c" -> "C" [] c = "d" -> "D"
      [] c = "e" -> "E" [] c = "f" -> "F" [] c = "g" -> "G" [] c = "h" -> "H"
      [] c = "i" -> "I" [] c = "j" -> "J" [] c = "k" -> "K" [] c = "l" -> "L"
      [] c = "m" -> "M" [] c = "n" -> "N" [] c = "o" -> "O" [] c = "p" -> "P"
      [] c = "q" -> "Q" [] c = "r" -> "R" [] c = "s" -> "S" [] c = "t" -> "T"
      [] c = "u" -> "U" [] c = "v" -> "V" [] c = "w" -> "W" [] c = "x" -> "X"
      [] c = "y" -> "Y" [] c = "z" -> "Z" [] OTHER -> c

Upper(s) == [i \in 1..Len(s) |-> UpperChar(s[i])] \o <<>>

RouterWords == AllKeywords \cup { <<>>, <<"o","k">> }

RouterSeparators == { <<" ">>, <<"!","?">> }

RouterInit ==
    /\ store = <<>>
    /\ req = [r \in Slots |-> Idle]
    /\ arrived = 0
    /\ tools = TOOL_NAMES
    /\ gw = GwIdle
    /\ hs = HsIdle
    /\ sn = SnIdle
    /\ ah = AhIdle
    /\ \E a \in RouterWords, b \in RouterWords, sep \in RouterSeparators, up \in BOOLEAN :
          rt = [RtIdle EXCEPT !.text = IF up THEN Upper(a \o sep \o b) ELSE a \o sep \o b]

\* multi_agent_orchestrator(rt.text): line 117, no memory step, then the chain.
RouterStep ==
    /\ ~rt.ran
    /\ rt' = [rt EXCEPT
                !.intent = Dispatch([Idle EXCEPT !.user_message = rt.text,
                                                 !.lower_msg = Lower(rt.text)]).intent,
                !.ran = TRUE]
    /\ UNCHANGED <<store, req, arrived, tools, gw, hs, sn, ah>>

SpecRouter == RouterInit /\ [][RouterStep]_vars

(***************************************************************************)
(* The generation gateway on its own: call_gemini_api against every        *)
(* upstream answer.                                                        *)
(***************************************************************************)

\* Longest text field of an upstream answer.
MaxTextLen == 3

TextAlphabet == {" ", "\n", "\t", "a"}

UpstreamTexts == UNION { [1..n -> TextAlphabet] : n \in 0..MaxTextLen }

UpstreamResponses ==
    { Resp(k, "none", <<>>) : k \in {"raise", "timeout", "status", "malformed"} }
    \cup { Resp("body", sh, <<>>) :
             sh \in {"not_object", "no_candidates", "empty_candidates", "no_content",
                     "empty_parts", "no_text", "null_text"} }
    \cup { Resp("body", "text", t) : t \in UpstreamTexts }

GatewayInit ==
    /\ store = <<>>
    /\ req = [r \in Slots |-> Idle]
    /\ arrived = 0
    /\ tools = TOOL_NAMES
    /\ rt = RtIdle
    /\ hs = HsIdle
    /\ sn = SnIdle
    /\ ah = AhIdle
    /\ \E resp \in UpstreamResponses : gw = [GwIdle EXCEPT !.resp = resp]

GatewayStep ==
    /\ ~gw.ran
    /\ gw' = [gw EXCEPT !.out = call_gemini_api(gw.resp),
                        !.posts = GeminiPosts(gw.resp),
                        !.ran = TRUE]
    /\ UNCHANGED <<store, req, arrived, tools, rt, hs, sn, ah>>

SpecGateway == GatewayInit /\ [][GatewayStep]_vars

(***************************************************************************)
(* The history read on its own: get_chat_history(user_id, limit) against   *)
(* tables whose rows lie in any physical order, and every answer of the    *)
(* store, followed by the memory step of multi_agent_orchestrator.         *)
(***************************************************************************)

\* Most rows of a table.
MaxRows == 4

\* Largest limit asked for.
MaxLimit == 3

TurnTexts == <<"a", "b", "c", "d", "e">>

\* The row created at instant `at` for the given user.
TurnAt(user_id, at) ==
    Row(user_id, IF at % 2 = 1 THEN "user" ELSE "agent", <<TurnTexts[at]>>, at)

\* Tables of n rows with distinct created_at, in every physical order.
TablesOf(n) ==
    { [i \in 1..n |-> TurnAt(u[i], p[i])] :
        u \in [1..n -> Users],
        p \in {f \in [1..n -> 1..n] : \A i, j \in 1..n : f[i] = f[j] => i = j} }

HistoryTables == UNION { TablesOf(n) : n \in 0..MaxRows }

HistoryInit ==
    /\ store \in HistoryTables
    /\ req = [r \in Slots |-> Idle]
    /\ arrived = 0
    /\ tools = TOOL_NAMES
    /\ rt = RtIdle
    /\ gw = GwIdle
    /\ sn = SnIdle
    /\ ah = AhIdle
    /\ \E u \in Users, limit \in 1..MaxLimit, ans \in StoreAnswers :
          hs = [HsIdle EXCEPT !.user_id = u, !.limit = limit, !.ans = ans,
                              !.text = <<"o","k">>]

\* memory = await get_chat_history(user_id); if memory: fold it (lines 120-123).
HistoryStep ==
    /\ ~hs.ran
    /\ LET out == get_chat_history(store, hs.user_id, hs.limit, hs.ans)
       IN  hs' = [hs EXCEPT !.out = out,
                            !.fold = IF out.raised THEN [raised |-> TRUE, text |-> <<>>]
                                     ELSE MemoryFold(out.rows, hs.text),
                            !.ran = TRUE]
    /\ UNCHANGED <<store, req, arrived, tools, rt, gw, sn, ah>>

SpecHistory == HistoryInit /\ [][HistoryStep]_vars

(***************************************************************************)
(* sanitize_input on its own, and chat_agent's test of its result (line    *)
(* 42), on texts of every length next to 0 and next to 2000: a few         *)
(* characters in front, letters in the middle, a few characters behind.    *)
(***************************************************************************)

\* The first n characters of p repeated without end.
Cycle(p, n) == [i \in 1..n |-> p[((i - 1) % Len(p)) + 1]] \o <<>>

SanitizeLengths ==
    (0..MaxTextLen) \cup ((MAX_MESSAGE_LEN - MaxTextLen)..(MAX_MESSAGE_LEN + MaxTextLen))

SanitizeEdges ==
    { <<>>, <<"<">>, <<"\"", "x", ">">>, <<"<", ">", "\"", "<">> }

SanitizeInputs ==
    { pre \o Cycle(<<"a", "b">>, n) \o post :
          pre \in SanitizeEdges, post \in SanitizeEdges, n \in SanitizeLengths }

\* Line 42: `if not message` lets every non-empty string through.
Accepted(message) == message # <<>>

SanitizeInit ==
    /\ store = <<>>
    /\ req = [r \in Slots |-> Idle]
    /\ arrived = 0
    /\ tools = TOOL_NAMES
    /\ rt = RtIdle
    /\ gw = GwIdle
    /\ hs = HsIdle
    /\ sn \in {[SnIdle EXCEPT !.text = t] : t \in SanitizeInputs}
    /\ ah = AhIdle

SanitizeStep ==
    /\ ~sn.ran
    /\ LET message == sanitize_input(sn.text)
       IN  sn' = [sn EXCEPT !.out = message, !.again = sanitize_input(message),
                            !.accepted = Accepted(message), !.ran = TRUE]
    /\ UNCHANGED <<store, req, arrived, tools, rt, gw, hs, ah>>

SpecSanitize == SanitizeInit /\ [][SanitizeStep]_vars

(***************************************************************************)
(* NewsAnalysisAgent (app/agents.py): analysis_history, the list           *)
(* analyze_news_advanced appends to, and get_analysis_history reading it.  *)
(***************************************************************************)

\* Calls of analyze_news_advanced in one run.
MaxAnalyses == 3

\* Python's s[start:] for a list s and an integer start: a negative start
\* counts from the end, and both ends are clipped to the list.
PySliceFrom(s, start) ==
    LET n == Len(s)
        from == IF start < 0 THEN (IF n + start < 0 THEN 0 ELSE n + start)
                ELSE (IF start > n THEN n ELSE start)
    IN  SubSeq(s, from + 1, n)

\* Lines 647-649: self.analysis_history[-limit:] if self.analysis_history else []
get_analysis_history(history, limit) ==
    IF history # <<>> THEN PySliceFrom(history, 0 - limit) ELSE <<>>

AnalysisContents == { ARTICLE, <<"w","a","r">> }

\* How a call of analyze_news_advanced goes: the client is not configured,
\* the generation returns nothing, something raises, or a result is made.
AnalysisOutcomes == {"unavailable", "empty", "raise", "ok"}

AnalysisInit ==
    /\ store = <<>>
    /\ req = [r \in Slots |-> Idle]
    /\ arrived = 0
    /\ tools = TOOL_NAMES
    /\ rt = RtIdle
    /\ gw = GwIdle
    /\ hs = HsIdle
    /\ sn = SnIdle
    /\ ah = AhIdle

\* Lines 444-498: only a call that made a result appends an entry (484-488).
analyze_news_advanced(content, outcome) ==
    /\ ah.calls < MaxAnalyses
    /\ ah' = [ah EXCEPT
                !.analysis_history =
                    IF outcome = "ok"
                    THEN Append(@, [content |-> content, timestamp |-> ah.calls + 1])
                    ELSE @,
                !.calls = @ + 1,
                !.asked = FALSE, !.limit = 0, !.out = <<>>]
    /\ UNCHANGED <<store, req, arrived, tools, rt, gw, hs, sn>>

GetAnalysisHistory(limit) ==
    /\ ~ah.asked
    /\ ah' = [ah EXCEPT !.asked = TRUE, !.limit = limit,
                        !.out = get_analysis_history(ah.analysis_history, limit)]
    /\ UNCHANGED <<store, req, arrived, tools, rt, gw, hs, sn>>

NextAnalysis ==
    \/ \E content \in AnalysisContents, outcome \in AnalysisOutcomes :
           analyze_news_advanced(content, outcome)
    \/ \E limit \in 0..MaxLimit : GetAnalysisHistory(limit)

SpecAnalysis == AnalysisInit /\ [][NextAnalysis]_vars

(***************************************************************************)
(* Properties.                                                             *)
(***************************************************************************)

\* The turns of the given role the table gained since request r arrived.
TurnsSince(r, role) ==
    Cardinality({i \in (req[r].base_len + 1)..Len(store) : store[i].role = role})

Replied(r) == req[r].pc = "done" /\ req[r].status = STATUS_OK

Rejected(r) == req[r].pc = "done" /\ req[r].exc = "HTTPException"

\* The router's categories in the order the specification gives them, and
\* the keywords of each.
PriorityOrder ==
    <<"greeting", "identity", "news", "summarize", "factcheck", "sentiment",
      "keywords", "statistic", "report", "social", "personal">>

KeywordsOf(category) ==
    CASE category = "greeting"  -> GREETING_KEYWORDS
      [] category = "identity"  -> IDENTITY_KEYWORDS
      [] category = "news"      -> NEWS_EVENT_KEYWORDS
      [] category = "summarize" -> SUMMARIZE_KEYWORDS
      [] category = "factcheck" -> FACTCHECK_KEYWORDS
      [] category = "sentiment" -> SENTIMENT_KEYWORDS
      [] category = "keywords"  -> EXTRACT_KEYWORDS
      [] category = "statistic" -> STATISTIC_KEYWORDS
      [] category = "report"    -> REPORT_KEYWORDS
      [] category = "social"    -> SOCIAL_KEYWORDS
      [] category = "personal"  -> PERSONAL_DATA_KEYWORDS

\* The first category of PriorityOrder with a keyword in the text (letter
\* case ignored), "general" when there is none.
FirstMatch(text) ==
    LET lower == Lower(text)
        hits == {i \in 1..Len(PriorityOrder) : AnyIn(KeywordsOf(PriorityOrder[i]), lower)}
    IN  IF hits = {} THEN "general"
        ELSE PriorityOrder[CHOOSE i \in hits : \A j \in hits : i <= j]

\* C1 (as stated): every request that returns a reply has appended exactly one
\* agent turn to the table, and a request rejected by input validation has
\* appended no turn.
C1_ExactlyOneAgentTurn ==
    \A r \in Slots :
        /\ Replied(r) => TurnsSince(r, "agent") = 1
        /\ Rejected(r) => Len(store) = req[r].base_len

\* C1 (amended): a request that returns a reply has appended exactly one agent
\* turn, carrying the reply, when its save_chat_message for the agent turn
\* succeeded, and no agent turn when that write failed; a request rejected by
\* input validation has made no store call and appended no turn.
C1_AgentTurnWhenSaved ==
    \A r \in Slots :
        /\ Replied(r) =>
              /\ TurnsSince(r, "agent") = (IF req[r].agent_saved THEN 1 ELSE 0)
              /\ req[r].agent_saved =>
                    store[Len(store)] =
                        Row(req[r].user_id, "agent", req[r].reply, Len(store))
        /\ Rejected(r) => Len(store) = req[r].base_len /\ req[r].store_calls = 0

C1_Witness ==
    \E r \in Slots :
        Replied(r) /\ req[r].agent_saved /\ TurnsSince(r, "agent") = 1

\* C2: a request whose message is empty or only whitespace is rejected before
\* any call to the store, the lookup client or the generation service.
C2_BlankRejectedBeforeCalls ==
    \A r \in Slots :
        (req[r].pc # "idle" /\ Strip(req[r].message) = <<>>) =>
            /\ req[r].pc = "done" /\ req[r].status # STATUS_OK
            /\ req[r].store_calls = 0
            /\ req[r].lookup_calls = 0
            /\ req[r].gen_calls = 0

\* C3: a request whose sanitized message is non-empty always ends with a
\* reply, never with an error, whatever the collaborators do and whatever
\* the table holds.
C3_NonEmptyAlwaysReplies ==
    \A r \in Slots :
        (req[r].pc = "done" /\ req[r].message # <<>>) => req[r].status = STATUS_OK

\* C4: an empty sanitized message ends the request with HTTP 400 and the
\* detail 'Message cannot be empty.', not with the HTTP 500 of the catch-all.
C4_EmptyYieldsBadRequest ==
    \A r \in Slots :
        (req[r].pc = "done" /\ req[r].message = <<>>) =>
            /\ req[r].status = STATUS_BAD_REQUEST
            /\ req[r].detail = DETAIL_EMPTY

\* C5: the category multi_agent_orchestrator acts on is the first one, in the
\* fixed priority order, with a keyword occurring in the message as a
\* case-insensitive substring, and general when no keyword occurs.
C5_PriorityOrder ==
    rt.ran => rt.intent = FirstMatch(rt.text)

C5_Witness ==
    /\ rt.ran
    /\ rt.text # Lower(rt.text)
    /\ AnyIn(STATISTIC_KEYWORDS, Lower(rt.text))
    /\ AnyIn(FACTCHECK_KEYWORDS, Lower(rt.text))
    /\ rt.intent = "factcheck"

\* The category of each message the environment sends, computed from the
\* message and chat_agent's fixed wrapper text alone.
IntentOfMessage ==
    [m \in {sanitize_input(raw) : raw \in RawMessages} |->
        FirstMatch(FullMessage(<<>>, m))]

C7_GreetingEndToEnd ==
    \A r \in Slots :
        (req[r].pc = "done" /\ AnyIn(GREETING_KEYWORDS, Lower(req[r].message))) =>
            /\ req[r].status = STATUS_OK
            /\ req[r].intent = "greeting"
            /\ req[r].reply = GREETING_REPLY
            /\ req[r].gen_calls = 0
            /\ req[r].lookup_calls = 0
            /\ TurnsSince(r, "agent") = 1

\* C8: call_gemini_api never raises and always returns a non-empty string,
\* whatever the upstream call does.
C8_GatewayAlwaysText ==
    gw.ran => ~gw.out.raised /\ gw.out.text # <<>>

C8_Witness ==
    /\ gw.ran
    /\ gw.resp.kind = "body"
    /\ gw.resp.shape = "empty_parts"
    /\ gw.out.text = EXCEPT_FALLBACK

\* C9: the string call_gemini_api returns for a timeout differs from the
\* string it returns for every other failure.
C9_TimeoutFallbackDistinct ==
    (gw.ran /\ gw.resp.kind = "timeout") =>
        \A other \in UpstreamResponses :
            (other.kind # "timeout" /\ UpstreamFailure(other)) =>
                call_gemini_api(other).text # gw.out.text

\* C10: each call of call_gemini_api sends one request upstream, and a
\* request dispatched to the news, personal-data or general branch has made
\* exactly one generation call when its reply is ready; when that call
\* failed the reply is a fallback string.
C10_AtMostOnce ==
    \A r \in Slots :
        /\ req[r].posts = req[r].gen_calls
        /\ (/\ req[r].intent \in {"news", "personal", "general"}
            /\ req[r].pc \in {"save_agent", "fetch_updated", "done"}
            /\ req[r].exc = "") =>
              /\ req[r].gen_calls = 1
              /\ req[r].posts = 1
              /\ req[r].failed = 1 =>
                    req[r].reply \in {EXCEPT_FALLBACK, EMPTY_TEXT_FALLBACK}
              /\ req[r].failed = 0 =>
                    req[r].reply \notin {EXCEPT_FALLBACK, EMPTY_TEXT_FALLBACK}

C10_Witness ==
    \E r \in Slots :
        /\ Replied(r)
        /\ req[r].intent = "general"
        /\ req[r].failed = 1
        /\ req[r].posts = 1
        /\ req[r].reply = EXCEPT_FALLBACK

\* The request has its reply in hand (agent_reply is bound).
ReplyReady(r) == \E i \in 1..Len(req[r].steps) : req[r].steps[i] = "reply"

\* C11: for a request dispatched to the live-event agent whose lookup
\* returned at least one post and whose generation call failed (no text, or
\* only whitespace, came back, so that call_gemini_api answered with one of
\* its fallback strings), the agent's output contains the text of at least
\* one retrieved post instead of the fallback string.
C11_LiveEventFallback ==
    \A r \in Slots :
        (/\ req[r].intent = "news"
         /\ ReplyReady(r)
         /\ req[r].tweets # <<>>
         /\ req[r].failed > 0) =>
            /\ \E i \in 1..Len(req[r].tweets) : Contains(req[r].reply, req[r].tweets[i].text)
            /\ req[r].reply \notin {EXCEPT_FALLBACK, EMPTY_TEXT_FALLBACK}

\* The indexes of the table's rows that belong to the user of the read.
RowsOfReader == {i \in 1..Len(store) : store[i].user_id = hs.user_id}

Took(r, step) == \E i \in 1..Len(req[r].steps) : req[r].steps[i] = step

\* C14: save_chat_message never raises into chat_agent: whether the user
\* turn's write succeeded or failed the request goes on to read the history,
\* and once the reply has been produced the request ends with HTTP 200 and
\* returns that reply, whether the agent turn's write succeeded or failed.
C14_SaveFailureNotFatal ==
    \A r \in Slots :
        /\ req[r].exc \notin {"ConnectError", "HTTPStatusError"}
        /\ req[r].steps = <<"append_user">> => req[r].pc = "fetch_history"
        /\ Took(r, "append_agent") =>
              /\ req[r].pc \in {"fetch_updated", "done"}
              /\ req[r].exc = ""
        /\ (ReplyReady(r) /\ req[r].pc = "done") =>
              /\ req[r].status = STATUS_OK
              /\ req[r].response = req[r].reply

C14_Witness ==
    \E r \in Slots :
        /\ Replied(r)
        /\ ~req[r].user_saved
        /\ ~req[r].agent_saved
        /\ req[r].gen_calls = 1
        /\ req[r].failed = 0
        /\ req[r].response = req[r].reply
        /\ Len(store) = req[r].base_len

\* Sequence a is an initial part of sequence b.
IsPrefixOf(a, b) == Len(a) <= Len(b) /\ SubSeq(b, 1, Len(a)) = a

\* C15: no step edits or deletes a stored turn: in every step each user's
\* stored turn sequence after the step is the sequence before it, extended
\* by appended turns only.
C15_AppendOnly ==
    [][\A u \in Users : IsPrefixOf(SelectRows(store, u), SelectRows(store', u))]_vars

C15_Witness ==
    \E r \in Slots :
        /\ Replied(r)
        /\ req[r].base_len > 0
        /\ Len(store) = req[r].base_len + 2
        /\ \A i \in 1..req[r].base_len : store[i].user_id = req[r].user_id

\* The steps that produce the reply (fact_check.py lines 64-69 and what
\* multi_agent_orchestrator does for them).
ReplySteps == {"classify", "dispatch", "lookup", "generate", "reply"}

\* C16: within one request the write of the user's turn has been attempted
\* and has returned before any step of the reply generation, and the write
\* of the agent turn is attempted only after the reply has been produced;
\* an agent turn in the table implies a produced reply with that text.
C16_UserTurnBeforeGeneration ==
    \A r \in Slots :
        LET steps == req[r].steps
        IN  /\ \A i \in 1..Len(steps) :
                  steps[i] \in ReplySteps =>
                      \E j \in 1..(i - 1) : steps[j] = "append_user"
            /\ \A i \in 1..Len(steps) :
                  steps[i] = "append_agent" =>
                      \E j \in 1..(i - 1) : steps[j] = "reply"
            /\ (req[r].gen_calls > 0 \/ req[r].lookup_calls > 0) => Took(r, "append_user")
            /\ \A i \in (req[r].base_len + 1)..Len(store) :
                  (store[i].role = "agent" /\ req[r].pc # "idle") =>
                      ReplyReady(r) /\ store[i].content = req[r].reply

C16_Witness ==
    \E r \in Slots :
        /\ Replied(r)
        /\ req[r].steps[1] = "append_user"
        /\ req[r].gen_calls = 1
        /\ req[r].agent_saved
        /\ store[Len(store)].role = "agent"

\* The steps the state machine of the specification names.
IsMachineStep(step) ==
    step \in {"classify", "fetch_history", "dispatch", "append_agent", "return"}

\* C17: a request that went through the router and returned a reply has
\* taken the steps classify, fetch history, dispatch, append the agent
\* reply, return, once each and in this order.
C17_StepsOnceInOrder ==
    \A r \in Slots :
        (Replied(r) /\ req[r].intent # "" /\ req[r].depth = 0) =>
            SelectSeq(req[r].steps, IsMachineStep) =
                <<"classify", "fetch_history", "dispatch", "append_agent", "return">>

\* The stored user turns the request's user had when the request arrived.
EarlierMessages(r) ==
    { store[i].content : i \in { j \in 1..req[r].base_len :
                                    /\ store[j].user_id = req[r].user_id
                                    /\ store[j].role = "user" } }

\* C18: a request of a user who sent an earlier message, itself a message
\* without any keyword, whose store calls all succeeded, ends with a reply,
\* and a prompt it passed to the generation service contains the text of
\* the earlier message.
C18_PromptFoldsEarlierMessage ==
    \A r \in Slots :
        (/\ req[r].pc = "done"
         /\ req[r].message = <<"o","k">>
         /\ EarlierMessages(r) # {}
         /\ req[r].user_saved
         /\ req[r].fetch_failed = 0) =>
            /\ req[r].status = STATUS_OK
            /\ \A m \in EarlierMessages(r) :
                  \E i \in 1..Len(req[r].prompts) : Contains(req[r].prompts[i], m)

\* C19: a request whose message is 'summarize: ' followed by an article,
\* with the store answering every call, ends with a reply, is classified
\* summarize, makes exactly one generation call whose prompt contains the
\* article, and its reply is the agent turn appended to the table.
C19_SummarizeEndToEnd ==
    \A r \in Slots :
        (/\ req[r].pc = "done"
         /\ req[r].message = SUMMARIZE_REQUEST
         /\ req[r].user_saved
         /\ req[r].fetch_failed = 0) =>
            /\ req[r].status = STATUS_OK
            /\ req[r].intent = "summarize"
            /\ req[r].gen_calls = 1
            /\ Contains(req[r].prompts[1], ARTICLE)
            /\ req[r].agent_saved
            /\ store[Len(store)] = Row(req[r].user_id, "agent", req[r].reply, Len(store))

\* A stored row as a turn: its role and text, without the time of the write.
TurnOf(row) == [role |-> row.role, content |-> row.content]

\* The turns of user u among the first n rows of the table, in table order.
TurnsOf(u, n) ==
    LET Mine(row) == row.user_id = u
        rows == SelectSeq(SubSeq(store, 1, n), Mine)
    IN  [i \in 1..Len(rows) |-> TurnOf(rows[i])]

\* The turns request r has appended itself so far.
OwnTurns(r) ==
    (IF Took(r, "append_user") /\ req[r].user_saved
     THEN <<[role |-> "user", content |-> req[r].message]>> ELSE <<>>)
    \o (IF Took(r, "append_agent") /\ req[r].agent_saved
        THEN <<[role |-> "agent", content |-> req[r].reply]>> ELSE <<>>)

\* What the table would hold for r's user had r run with no other request
\* beside it: the user's turns at r's arrival, then r's own.
AloneTurns(r) == TurnsOf(req[r].user_id, req[r].base_len) \o OwnTurns(r)

\* Every other request alive beside r belongs to another user.
OnlyOtherUsersBeside(r) ==
    \A q \in Slots \ {r} : req[q].pc # "idle" /\ req[q].user_id # req[r].user_id

\* C20: a request that runs beside requests of other users only finds and
\* leaves its user's stored turns as if it had run alone, at every point
\* of every interleaving: the table holds for its user the turns of its
\* arrival and its own, the history it returns holds those turns and no
\* row of another user, it fails on the history only when its own user
\* has turns, and what it replies is what its own branch produced.
C20_OtherUsersDoNotInterfere ==
    \A r \in Slots :
        (req[r].pc # "idle" /\ OnlyOtherUsersBeside(r)) =>
            /\ TurnsOf(req[r].user_id, Len(store)) = AloneTurns(r)
            /\ \A i \in 1..Len(req[r].history) :
                  req[r].history[i].user_id = req[r].user_id
            /\ (Replied(r) /\ req[r].history # <<>>) =>
                  [i \in 1..Len(req[r].history) |-> TurnOf(req[r].history[i])]
                      = LastN(AloneTurns(r), HISTORY_LIMIT)
            /\ req[r].exc = "KeyError" => AloneTurns(r) # <<>>
            /\ (Replied(r) /\ req[r].intent = "greeting") => req[r].response = GREETING_REPLY
            /\ (Replied(r) /\ req[r].intent = "general") =>
                  /\ req[r].gen_calls = 1
                  /\ req[r].prompts[1] =
                        ChatPrompt("general", FullMessage(<<>>, req[r].message))

C20_Witness ==
    \E r, q \in Slots :
        /\ Replied(r) /\ Replied(q)
        /\ req[r].user_id # req[q].user_id
        /\ req[r].base_len < req[q].base_len
        /\ req[q].agent_saved /\ req[r].agent_saved
        /\ req[q].user_saved /\ req[r].user_saved
        /\ store[Len(store)].user_id = req[r].user_id
        /\ store[Len(store) - 1].user_id = req[q].user_id
        /\ req[r].history # <<>>

(***************************************************************************)
(* Cancellation and persistence.                                           *)
(***************************************************************************)

\* The request ended (error or cancellation) before any reply was computed.
EndedBeforeReply(r) ==
    req[r].pc = "done" /\ req[r].status # STATUS_OK /\ ~ReplyReady(r)

\* C21 as stated: a request that is cancelled, times out or fails before its
\* reply has been computed has written no turn, so the table is what it was
\* when the request arrived.
C21_NoTurnBeforeReply ==
    \A r \in Slots : EndedBeforeReply(r) => Len(store) = req[r].base_len

\* C21 amended: a request that is cancelled, times out or fails before its
\* reply has been computed has written no agent turn; the only row it can
\* have written is its own user turn, the one chat_agent appends before it
\* generates, and that row is there exactly when that append reached the table.
C21_NoAgentTurnBeforeReply ==
    \A r \in Slots :
        EndedBeforeReply(r) =>
            /\ TurnsSince(r, "agent") = 0
            /\ Len(store) = req[r].base_len + (IF req[r].user_saved THEN 1 ELSE 0)
            /\ req[r].user_saved =>
                   store[Len(store)] =
                       Row(req[r].user_id, "user", req[r].message, req[r].base_len + 1)

\* A request cancelled while it awaited its history, its user turn written.
C21_Witness ==
    \E r \in Slots :
        /\ EndedBeforeReply(r)
        /\ req[r].exc = "CancelledError"
        /\ req[r].user_saved
        /\ req[r].store_calls = 2
        /\ Len(store) = req[r].base_len + 1

\* The positions of a step in the log of request r.
StepsAt(r, step) == {i \in 1..Len(req[r].steps) : req[r].steps[i] = step}

\* C22: a request dispatched to the live-event agent that has its reply made
\* exactly one lookup, with topic equal to the user's message and result cap
\* 10; the lookup finished before the single generation call started; and
\* when the lookup returned no posts the generation prompt holds the explicit
\* no-posts statement.
C22_OneLookupThenOneGeneration ==
    \A r \in Slots :
        (req[r].intent = "news" /\ ReplyReady(r)) =>
            /\ req[r].lookup_calls = 1
            /\ req[r].topic = req[r].message
            /\ req[r].cap = 10
            /\ req[r].gen_calls = 1
            /\ Len(req[r].prompts) = 1
            /\ \A i \in StepsAt(r, "lookup"), j \in StepsAt(r, "generate") : i < j
            /\ req[r].tweets = <<>> => Contains(req[r].prompts[1], NO_TWEETS)

C24_SanitizeContract ==
    sn.ran =>
        /\ \A i \in 1..Len(sn.out) : sn.out[i] \notin {"<", ">", "\""}
        /\ Len(sn.out) <= 2000
        /\ sn.again = sn.out
        /\ sn.accepted => (1 <= Len(sn.out) /\ Len(sn.out) <= 2000)

\* A text longer than 2000 characters holding a double quote, cut to 2000
\* and accepted.
C24_Witness ==
    /\ sn.ran
    /\ Len(sn.text) > 2000
    /\ \E i \in 1..Len(sn.text) : sn.text[i] = "\""
    /\ Len(sn.out) = 2000
    /\ Len(sn.out) < Len(RemoveChars(sn.text, {"<", ">", "\""}))
    /\ sn.accepted

\* C25: for a message classified report that has its reply, the summarizer,
\* the fact-checker and the keyword extractor were each awaited once, in that
\* order, each returning before the next was called; the report step came
\* after the three and was handed exactly their three results.
C25_ReportAfterItsThreeSources ==
    \A r \in Slots :
        (req[r].intent = "report" /\ ReplyReady(r)) =>
            /\ [i \in 1..Len(req[r].tool_calls) |-> req[r].tool_calls[i].tool]
                   = <<"summarize_news", "fact_checker", "extract_keywords",
                       "generate_report">>
            /\ req[r].tool_calls[4].args =
                   <<req[r].tool_calls[1].out, req[r].tool_calls[2].out,
                     req[r].tool_calls[3].out>>
            /\ \A i \in 1..3 : req[r].tool_calls[i].args = <<req[r].user_message>>
            /\ req[r].reply = req[r].tool_calls[4].out
            /\ req[r].gen_calls = 4

\* A report whose three sources returned three different texts.
C25_Witness ==
    \E r \in Slots :
        /\ req[r].intent = "report"
        /\ ReplyReady(r)
        /\ Len(req[r].tool_calls) = 4
        /\ req[r].tool_calls[1].out # req[r].tool_calls[2].out
        /\ req[r].tool_calls[2].out # req[r].tool_calls[3].out
        /\ req[r].tool_calls[1].out # req[r].tool_calls[3].out

\* C26: every call of multi_agent_orchestrator ends with a reply after a
\* bounded number of dispatch steps, whatever the message and the content of
\* the tool table: a request that was classified and has ended has a reply,
\* and the fallback of TruthFinderAgent.handle never runs into the limit of
\* nested calls.
C26_OrchestratorTerminates ==
    \A r \in Slots :
        /\ req[r].exc # "RecursionError"
        /\ (req[r].pc = "done" /\ Took(r, "classify")) => ReplyReady(r)

\* The roles of a user's stored turns, oldest first.
RolesOf(u) == [i \in 1..Len(SelectRows(store, u)) |-> SelectRows(store, u)[i].role]

\* C27 as stated: in every user's stored history the roles alternate user,
\* agent, user, agent, every agent turn standing right behind a user turn.
C27_RolesAlternate ==
    \A u \in Users :
        \A i \in 1..Len(RolesOf(u)) :
            RolesOf(u)[i] = (IF i % 2 = 1 THEN "user" ELSE "agent")

\* C27 amended: the turns a request wrote carry its user_id, its message and
\* its reply, and when both appends succeeded its user turn stands before
\* its agent turn in the user's history (turns of other requests of the same
\* user may stand between them); when the user append failed the agent turn
\* stands without its user turn.
C27_UserTurnBeforeAgentTurn ==
    \A r \in Slots :
        /\ req[r].user_row # 0 =>
               store[req[r].user_row] =
                   Row(req[r].user_id, "user", req[r].message, req[r].user_row)
        /\ req[r].agent_row # 0 =>
               /\ store[req[r].agent_row] =
                      Row(req[r].user_id, "agent", req[r].reply, req[r].agent_row)
               /\ req[r].user_row < req[r].agent_row

\* Two requests of one user, both appends of both succeeded, and the turns
\* stand user, user, agent, agent.
C27_Witness ==
    \E r \in Slots, q \in Slots :
        /\ r # q
        /\ req[r].user_id = req[q].user_id
        /\ req[r].user_row # 0 /\ req[q].user_row # 0
        /\ req[r].user_row < req[q].user_row
        /\ req[q].user_row < req[r].agent_row
        /\ req[r].agent_row < req[q].agent_row

\* The request returned a response and its agent turn is in the table.
RepliedAndStored(r) == Replied(r) /\ req[r].agent_saved

\* C28 as stated: whenever chat_agent returns a response after its agent
\* append succeeded, the last element of the history in that response is the
\* agent turn carrying the response text of that request.
C28_LastIsOwnAgentTurn ==
    \A r \in Slots :
        RepliedAndStored(r) =>
            /\ req[r].history # <<>>
            /\ req[r].history[Len(req[r].history)] =
                   Row(req[r].user_id, "agent", req[r].response, req[r].agent_row)

\* C28 amended: whenever chat_agent returns a response after its agent append
\* succeeded, the history in that response is empty (the final read failed)
\* or holds the agent turn carrying the response text of that request, and
\* every element behind that turn is a turn of the same user stored after it.
C28_HistoryHoldsOwnAgentTurn ==
    \A r \in Slots :
        (RepliedAndStored(r) /\ req[r].history # <<>>) =>
            \E i \in 1..Len(req[r].history) :
                /\ req[r].history[i] =
                       Row(req[r].user_id, "agent", req[r].response, req[r].agent_row)
                /\ \A j \in (i + 1)..Len(req[r].history) :
                       /\ req[r].history[j].created_at > req[r].agent_row
                       /\ req[r].history[j].user_id = req[r].user_id

\* A response whose history ends with a turn another request of the same
\* user stored after this request's agent turn.
C28_Witness ==
    \E r \in Slots :
        /\ RepliedAndStored(r)
        /\ Len(req[r].history) >= 2
        /\ req[r].history[Len(req[r].history)].created_at > req[r].agent_row

\* The message made of keyword k and nothing a keyword could match: every
\* message containing k contains each keyword that occurs inside k, so k can
\* decide for its category exactly when this message is dispatched to it.
KeywordAlone(k) == k \o <<"!", "?">>

\* C29: every keyword of the router's lists can decide the classification:
\* for each keyword k listed for category c there is a message containing k
\* that multi_agent_orchestrator dispatches to c; the message holding k alone
\* is one.
C29_EveryKeywordDecides ==
    rt.ran =>
        \A i \in 1..Len(PriorityOrder) :
            \A n \in 1..Len(KeywordsOf(PriorityOrder[i])) :
                rt.text = KeywordAlone(KeywordsOf(PriorityOrder[i])[n])
                    => rt.intent = PriorityOrder[i]

\* C30: for every limit >= 0 and every sequence of analyze_news_advanced
\* calls, get_analysis_history(limit) returns at most limit entries: the most
\* recent min(limit, n) entries of analysis_history, in insertion order.
C30_HistoryAtMostLimit ==
    ah.asked =>
        /\ Len(ah.out) <= ah.limit
        /\ ah.out = LastN(ah.analysis_history, ah.limit)

====
